---------------------------- MODULE Spec2Model ----------------------------
(***************************************************************************)
(* A model of the hvp-archive library: the provider (autodetection, TOC    *)
(* validation), the unified archive model (mapping of the three raw TOC    *)
(* layouts into one entry tree, update hooks, the file iterators) and the  *)
(* rebuild engine.                                                         *)
(*                                                                         *)
(* Level of abstraction.  A TOC is modelled field by field (every field of *)
(* the binrw structures is a field of a record, with the value stored on   *)
(* disk), payloads are sequences of bytes, and a file on disk is a TOC     *)
(* followed by the bytes of its payload region.  Option<T> is a sequence   *)
(* of length 0 (None) or 1 (Some).  The values of a u32 are the integers   *)
(* modulo U32Mod (TLC's integers are 32 bits wide, so the width of the     *)
(* offsets is scaled down to U32Bits bits).                                *)
(***************************************************************************)
EXTENDS Integers, Sequences, FiniteSets, TLC

VARIABLES
    disk,        \* the file on disk the run is about
    build,       \* whether the build checks integer overflow (debug) or wraps (release)
    options,     \* the Options the archive was created with
    provider,    \* the ArchiveProvider, or the error ArchiveProvider::new returned
    entries,     \* Archive.entries: the unified entry tree
    metadata,    \* Archive.metadata
    loaded0,     \* the entry tree as Archive::new returned it
    reshaped,    \* whether the tree was changed other than by setting an update
    iter,        \* a live FileIterator / FileIteratorMut: None or Some(iterator)
    yielded,     \* what the live iterator has returned, in order
    last,        \* what the last call returned
    outs,        \* the results of the rebuilds made, in order
    pc           \* where the run stands

vars == <<disk, build, options, provider, entries, metadata, loaded0, reshaped, iter,
          yielded, last, outs, pc>>

-----------------------------------------------------------------------------
(* Bounds of the model *)

\* the width of a u32, scaled down
U32Bits == 8

U32Mod == 2 ^ U32Bits
U32Max == U32Mod - 1

-----------------------------------------------------------------------------
(* Helpers on sequences *)

Range(s) == {s[i] : i \in DOMAIN s}

RECURSIVE Reverse(_)
Reverse(s) == IF s = <<>> THEN <<>> ELSE Append(Reverse(Tail(s)), Head(s))

Take(s, n) == SubSeq(s, 1, IF n < Len(s) THEN n ELSE Len(s))

RECURSIVE Concat(_)
Concat(ss) == IF ss = <<>> THEN <<>> ELSE Head(ss) \o Concat(Tail(ss))

RECURSIVE SumSeq(_)
SumSeq(s) == IF s = <<>> THEN 0 ELSE Head(s) + SumSeq(Tail(s))

Some(x) == <<x>>
None == <<>>
IsSome(o) == o # <<>>

-----------------------------------------------------------------------------
(* structures/checksum.rs: the wrapping byte sum, in exact i32 arithmetic *)

MinI32 == -2147483647 - 1
MaxI32 == 2147483647

\* i32::wrapping_add
WrappingAdd(a, b) ==
    IF a >= 0 /\ b >= 0
    THEN IF a > MaxI32 - b THEN (a + MinI32) + (b + MinI32) ELSE a + b
    ELSE IF a < 0 /\ b < 0
         THEN IF a < MinI32 - b THEN (a - MinI32) + (b - MinI32) ELSE a + b
         ELSE a + b

\* i32::from_le_bytes
FromLeBytes(b0, b1, b2, b3) ==
    b0 + 256 * b1 + 65536 * b2 + 16777216 * (IF b3 >= 128 THEN b3 - 256 ELSE b3)

RECURSIVE ChunksSum(_, _)
ChunksSum(data, acc) ==
    IF Len(data) < 4 THEN acc
    ELSE ChunksSum(SubSeq(data, 5, Len(data)),
                   WrappingAdd(acc, FromLeBytes(data[1], data[2], data[3], data[4])))

RECURSIVE RemainderSum(_, _)
RemainderSum(data, acc) ==
    IF data = <<>> THEN acc
    ELSE RemainderSum(Tail(data), WrappingAdd(acc, Head(data)))

\* chunks_exact(4).remainder()
Remainder(data) == SubSeq(data, Len(data) - (Len(data) % 4) + 1, Len(data))

bytes_sum(data) == WrappingAdd(ChunksSum(data, 0), RemainderSum(Remainder(data), 0))

-----------------------------------------------------------------------------
(* Strings and paths.  A String is the sequence of its UTF-8 bytes, a path *)
(* is the sequence of the bytes of a PathBuf on a platform whose separator *)
(* is "/" (byte 47).                                                       *)

\* PathBuf::push: an absolute path replaces the buffer, a relative one is
\* added behind a separator
PathPush(path, name) ==
    IF name # <<>> /\ Head(name) = 47 THEN name
    ELSE IF path = <<>> THEN name
    ELSE IF path[Len(path)] = 47 THEN path \o name
    ELSE path \o <<47>> \o name

\* PathBuf: FromIterator, the components pushed one after the other
RECURSIVE PathCollect(_, _)
PathCollect(path, names) ==
    IF names = <<>> THEN path ELSE PathCollect(PathPush(path, Head(names)), Tail(names))

\* the pieces of a path between its separators
RECURSIVE SplitPath(_, _)
SplitPath(path, current) ==
    IF path = <<>> THEN <<current>>
    ELSE IF Head(path) = 47 THEN <<current>> \o SplitPath(Tail(path), <<>>)
    ELSE SplitPath(Tail(path), Append(current, Head(path)))

\* Path::components: the root of an absolute path, then the pieces that are
\* neither empty nor "."
Components(path) ==
    (IF path # <<>> /\ Head(path) = 47 THEN <<<<47>>>> ELSE <<>>)
    \o SelectSeq(SplitPath(path, <<>>), LAMBDA c : c # <<>> /\ c # <<46>>)

-----------------------------------------------------------------------------
(* archive/entry.rs: the unified entry tree *)

FileEntry(name, compression_info, checksum, raw_bytes, update) ==
    [kind |-> "File", name |-> name, compression_info |-> compression_info,
     checksum |-> checksum, raw_bytes |-> raw_bytes, update |-> update]

DirEntry(name, es) == [kind |-> "Dir", name |-> name, entries |-> es]

CompressionInfo(uncompressed_size, compression_type) ==
    [uncompressed_size |-> uncompressed_size, compression_type |-> compression_type]

\* FileEntry::checksum_match
checksum_match(file_entry) == bytes_sum(file_entry.raw_bytes) = file_entry.checksum

\* Archive::entries_checksum_match: a directory counts as matching
entries_checksum_match(es) ==
    \A i \in DOMAIN es :
        IF es[i].kind = "File" THEN checksum_match(es[i]) ELSE TRUE

\* parent.join(name), or PathBuf::from(name) without a parent
JoinParent(parent, name) == IF IsSome(parent) THEN PathPush(parent[1], name) ELSE name

\* Entry::flatten_to_files: the files below one entry, each with its path
RECURSIVE flatten_dir(_, _)
flatten_file(entry, parent) == [path |-> JoinParent(parent, entry.name), entry |-> entry]

flatten_dir(entry, parent) ==
    LET path == JoinParent(parent, entry.name)
        sub(e) == IF e.kind = "File" THEN <<flatten_file(e, Some(path))>>
                  ELSE flatten_dir(e, Some(path))
    IN Concat([i \in DOMAIN entry.entries |-> sub(entry.entries[i])])

flatten_to_files(entry) ==
    IF entry.kind = "File" THEN <<flatten_file(entry, None)>>
    ELSE flatten_dir(entry, None)

\* every file of a tree, in the order of flatten_to_files over the roots
AllFiles(es) == Concat([i \in DOMAIN es |-> flatten_to_files(es[i])])

RECURSIVE CountKind(_, _)
CountKind(es, kind) ==
    SumSeq([i \in DOMAIN es |->
        (IF es[i].kind = kind THEN 1 ELSE 0)
        + (IF es[i].kind = "Dir" THEN CountKind(es[i].entries, kind) ELSE 0)])

\* the shape of a tree: the kind at every position, nothing else
RECURSIVE Shape(_)
Shape(es) ==
    [i \in DOMAIN es |->
        IF es[i].kind = "File" THEN <<"File">> ELSE <<"Dir", Shape(es[i].entries)>>]

-----------------------------------------------------------------------------
(* archive/file_helpers.rs: FileIterator and FileIteratorMut.  A frame     *)
(* keeps the entry it refers to and, for the model's bookkeeping, the      *)
(* position of that entry in the tree (the indices leading to it).         *)

StackFrame(entry, depth, pos) == [entry |-> entry, depth |-> depth, pos |-> pos]

\* the frames of a child list, pushed in reverse order
PushReversed(stack, es, depth, pos) ==
    stack \o Reverse([i \in DOMAIN es |-> StackFrame(es[i], depth, Append(pos, i))])

\* the frames FileIterator::new starts from
RootFrames(es) == PushReversed(<<>>, es, 0, <<>>)

\* FileIterator::new / FileIteratorMut::new
IterNew(es, files_count, mutable) ==
    [stack |-> RootFrames(es), path_stack |-> <<>>,
     files_count |-> files_count, idx |-> 0, mutable |-> mutable]

\* Vec::truncate
Truncate(path_stack, depth) == Take(path_stack, depth)

\* Iterator::next: pops frames until a file is found or the stack is empty
RECURSIVE IterNext(_)
IterNext(it) ==
    IF it.stack = <<>> THEN [it |-> it, item |-> None]
    ELSE
        LET frame == it.stack[Len(it.stack)]
            rest == SubSeq(it.stack, 1, Len(it.stack) - 1)
            path_stack == Truncate(it.path_stack, frame.depth)
        IN IF frame.entry.kind = "File"
           THEN [it |-> [it EXCEPT !.stack = rest, !.path_stack = path_stack,
                                   !.idx = it.idx + 1],
                 item |-> Some([path |-> PathPush(PathCollect(<<>>, path_stack),
                                                  frame.entry.name),
                                entry |-> frame.entry, pos |-> frame.pos])]
           ELSE IterNext([it EXCEPT
                    !.stack = PushReversed(rest, frame.entry.entries,
                                           frame.depth + 1, frame.pos),
                    !.path_stack = Append(path_stack, frame.entry.name)])

\* ExactSizeIterator::len
IterLen(it) == it.files_count - it.idx

\* the entry at a position of the tree, and the tree with that entry replaced
RECURSIVE EntryAt(_, _)
EntryAt(es, pos) ==
    IF Len(pos) = 1 THEN es[pos[1]] ELSE EntryAt(es[pos[1]].entries, Tail(pos))

RECURSIVE ReplaceAt(_, _, _)
ReplaceAt(es, pos, e) ==
    IF Len(pos) = 1 THEN [es EXCEPT ![pos[1]] = e]
    ELSE [es EXCEPT ![pos[1]] =
            [@ EXCEPT !.entries = ReplaceAt(@, Tail(pos), e)]]

\* FullFileEntryMut::update, and an assignment to the public field update
SetUpdate(es, pos, update) ==
    ReplaceAt(es, pos, [EntryAt(es, pos) EXCEPT !.update = update])

-----------------------------------------------------------------------------
(* provider.rs: the slices of the memory map *)

\* the outcome of a panic (an out-of-bounds slice, unreachable!(), an
\* overflow in a build with overflow checks)
Panic == [st |-> "panic"]

\* ArchiveProvider::get_bytes: &mmap[offset..offset + size] (usize arithmetic)
get_bytes(m, offset, size) ==
    IF offset + size <= Len(m)
    THEN [st |-> "ok", bytes |-> SubSeq(m, offset + 1, offset + size)]
    ELSE Panic

\* ArchiveProvider::get_empty_bytes
get_empty_bytes(m) == [st |-> "ok", bytes |-> <<>>]

-----------------------------------------------------------------------------
(* structures/obscure1/mod.rs and archive/obscure1.rs: Variant A.          *)
(* An Entry {entry_size, kind} is one record holding the fields of its     *)
(* kind too.                                                               *)

O1File(entry_size, is_compressed, compressed_size, uncompressed_size, checksum, offset, name) ==
    [kind |-> "File", entry_size |-> entry_size, is_compressed |-> is_compressed,
     compressed_size |-> compressed_size, uncompressed_size |-> uncompressed_size,
     checksum |-> checksum, offset |-> offset, name |-> name]

O1Dir(entry_size, name, es) ==
    [kind |-> "Dir", entry_size |-> entry_size, zero |-> 0, name |-> name, entries |-> es]

\* the result of mapping a list of raw entries: the entries and the counts
MapResult(es, files, dirs) == [st |-> "ok", entries |-> es, files |-> files, dirs |-> dirs]

\* accumulate the results of mapping the entries of a list, in order
RECURSIVE MapFold(_, _)
MapFold(results, acc) ==
    IF results = <<>> THEN acc
    ELSE IF Head(results).st # "ok" THEN Head(results)
    ELSE MapFold(Tail(results),
                 MapResult(acc.entries \o Head(results).entries,
                           acc.files + Head(results).files,
                           acc.dirs + Head(results).dirs))

\* obscure1::Process::process_file
O1ProcessFile(m, entry) ==
    LET raw_bytes == IF entry.uncompressed_size = 0 THEN get_empty_bytes(m)
                     ELSE get_bytes(m, entry.offset, entry.compressed_size)
    IN IF raw_bytes.st # "ok" THEN Panic
       ELSE MapResult(
            <<FileEntry(entry.name,
                        IF entry.is_compressed
                        THEN Some(CompressionInfo(entry.uncompressed_size, "Zlib"))
                        ELSE None,
                        entry.checksum, raw_bytes.bytes, None)>>, 1, 0)

\* obscure1::Process::process_dir, the count: metadata.dir_count += 1
O1CountDir(sub) == [sub EXCEPT !.dirs = @ + 1]

\* obscure1::Process::process_entry / process_dir
RECURSIVE O1ProcessEntry(_, _)
O1ProcessEntry(m, entry) ==
    IF entry.kind = "File" THEN O1ProcessFile(m, entry)
    ELSE LET sub == MapFold([i \in DOMAIN entry.entries |->
                                O1ProcessEntry(m, entry.entries[i])],
                            MapResult(<<>>, 0, 0))
         IN IF sub.st # "ok" THEN sub
            ELSE O1CountDir(MapResult(<<DirEntry(entry.name, sub.entries)>>,
                                      sub.files, sub.dirs))

\* obscure1::map_entries
O1MapEntries(m, es) ==
    MapFold([i \in DOMAIN es |-> O1ProcessEntry(m, es[i])], MapResult(<<>>, 0, 0))

-----------------------------------------------------------------------------
(* structures/obscure2/mod.rs, structures/final_exam/mod.rs,               *)
(* archive/obscure2.rs and archive/final_exam.rs: Variants B and C.        *)
(* The entries are a flat array; entry i of the code is element i + 1 of   *)
(* the sequence.  A Variant C entry carries a name_offset; a Variant B     *)
(* entry is resolved through the name map of the options.                  *)

O2File(name_crc32, compressed, checksum, uncompressed_size, name_offset, offset, compressed_size) ==
    [kind |-> IF compressed THEN "FileCompressed" ELSE "File",
     name_crc32 |-> name_crc32, zero |-> 0, checksum |-> checksum,
     uncompressed_size |-> uncompressed_size, name_offset |-> name_offset,
     offset |-> offset, compressed_size |-> compressed_size]

O2Dir(name_crc32, name_offset, count, index) ==
    [kind |-> "Directory", name_crc32 |-> name_crc32, zero1 |-> 0, zero2 |-> 0,
     zero3 |-> 0, name_offset |-> name_offset, count |-> count, index |-> index]

\* DirEntry::entries_range: start..end of the flat array
entries_range(dir) == [start |-> dir.index, end |-> dir.index + dir.count]

\* have_root_entry: the first entry is a directory named 0 with index 1
have_root_entry(es) ==
    es[1].kind = "Directory" /\ es[1].name_crc32 = 0 /\ es[1].index = 1

\* Options.obscure2_names: the names known by their CRC32
Obscure2Names == (11 :> <<97, 46, 116>>) @@ (12 :> <<98, 46, 116>>) @@ (21 :> <<100, 105, 114>>)

\* Obscure2NameMap::get_name
get_name(crc32) == IF crc32 \in DOMAIN Obscure2Names THEN Some(Obscure2Names[crc32]) ELSE None

\* the decimal digits of a number (format!("{}"))
RECURSIVE Digits(_)
Digits(n) == IF n < 10 THEN <<48 + n>> ELSE Digits(n \div 10) \o <<48 + (n % 10)>>

\* the name of a Variant B file or directory, with the fallback of a miss:
\* "unk_file_{crc}.dat" and "unk_folder_{crc}"
O2Name(crc32, is_file) ==
    IF IsSome(get_name(crc32)) THEN get_name(crc32)[1]
    ELSE IF is_file
         THEN <<117, 110, 107, 95, 102, 105, 108, 101, 95>> \o Digits(crc32)
              \o <<46, 100, 97, 116>>
         ELSE <<117, 110, 107, 95, 102, 111, 108, 100, 101, 114, 95>> \o Digits(crc32)

\* the bytes from an offset up to the first 0 (split(|b| b == 0).next())
RECURSIVE UntilNul(_)
UntilNul(bytes) ==
    IF bytes = <<>> \/ Head(bytes) = 0 THEN <<>>
    ELSE <<Head(bytes)>> \o UntilNul(Tail(bytes))

\* std::str::from_utf8(..).is_ok(), for the single-byte and two-byte forms
RECURSIVE Utf8Valid(_)
Utf8Valid(bytes) ==
    IF bytes = <<>> THEN TRUE
    ELSE IF Head(bytes) < 128 THEN Utf8Valid(Tail(bytes))
    ELSE IF Head(bytes) >= 194 /\ Head(bytes) <= 223 /\ Len(bytes) >= 2
            /\ bytes[2] >= 128 /\ bytes[2] <= 191
         THEN Utf8Valid(Tail(Tail(bytes)))
         ELSE FALSE

\* Names::get_name_by_offset: a name of Variant C is kept as its bytes
get_name_by_offset(names, offset) ==
    IF offset > Len(names) THEN Panic
    ELSE LET name == UntilNul(SubSeq(names, offset + 1, Len(names)))
         IN IF Utf8Valid(name) THEN [st |-> "ok", name |-> name] ELSE Panic

\* the name of an entry of Variant B or C
O2EntryName(g, names, entry) ==
    IF g = "FinalExam" THEN get_name_by_offset(names, entry.name_offset)
    ELSE [st |-> "ok", name |-> O2Name(entry.name_crc32, entry.kind # "Directory")]

\* obscure2::Process::process_file / final_exam::Process::process_file
O2ProcessFile(g, m, names, entry) ==
    LET name == O2EntryName(g, names, entry)
        raw_bytes == get_bytes(m, entry.offset, entry.compressed_size)
    IN IF name.st # "ok" \/ raw_bytes.st # "ok" THEN Panic
       ELSE MapResult(
            <<FileEntry(name.name,
                        IF entry.kind = "FileCompressed"
                        THEN Some(CompressionInfo(entry.uncompressed_size, "Lzo"))
                        ELSE None,
                        entry.checksum, raw_bytes.bytes, None)>>, 1, 0)

\* the outcome of a recursion that never returns
StackOverflow == [st |-> "overflow"]

\* obscure2::Process::process_entry / process_dir (and final_exam's): a
\* directory maps the entries of its range.  A chain of directories longer
\* than the array holds one of them twice: the recursion does not end.
RECURSIVE O2ProcessEntry(_, _, _, _, _, _)
O2ProcessEntry(g, m, names, es, entry, depth) ==
    IF entry.kind # "Directory" THEN O2ProcessFile(g, m, names, entry)
    ELSE IF depth > Len(es) THEN StackOverflow
    ELSE LET name == O2EntryName(g, names, entry)
             range == entries_range(entry)
         IN IF name.st # "ok" \/ range.end > Len(es) THEN Panic
            ELSE LET sub == MapFold([k \in 1..(range.end - range.start) |->
                                O2ProcessEntry(g, m, names, es,
                                               es[range.start + k], depth + 1)],
                                MapResult(<<>>, 0, 0))
                 IN IF sub.st # "ok" THEN sub
                    ELSE MapResult(<<DirEntry(name.name, sub.entries)>>,
                                   sub.files, sub.dirs + 1)

\* a plausible slip: the synthetic root mapped like any directory
O2MapEntriesWithRoot(g, m, names, es) ==
    O2ProcessEntry(g, m, names, es, es[1], 1)

\* obscure2::map_entries / final_exam::map_entries: the root is dropped and
\* its range is the top level
O2MapEntries(g, m, names, es) ==
    IF ~have_root_entry(es) \/ 1 + es[1].count > Len(es) THEN Panic
    ELSE MapFold([k \in 1..es[1].count |->
                    O2ProcessEntry(g, m, names, es, es[1 + k], 1)],
                 MapResult(<<>>, 0, 0))

\* Metadata
Metadata(result, g) == [dir_count |-> result.dirs, file_count |-> result.files, game |-> g]

\* Archive::new_with_options: the mapper of the archive's game
MapEntries(g, m, r) ==
    IF g = "Obscure1" THEN O1MapEntries(m, r.entries)
    ELSE O2MapEntries(g, m, r.names, r.entries)

-----------------------------------------------------------------------------
(* The codecs the payloads go through (flate2 and lzokay, called from      *)
(* entry.rs and from the updaters).  A compressed stream is the plain      *)
(* bytes behind a one-byte stream header; decompression checks the header. *)

ZlibHeader == 120
LzoHeader == 17

CodecHeader(compression_type) == IF compression_type = "Zlib" THEN ZlibHeader ELSE LzoHeader

\* Compress::compress_vec / lzokay_native::compress_with_dict / lzo1x::compress
Compress(compression_type, bytes) == <<CodecHeader(compression_type)>> \o bytes

\* a buffer of n zero bytes
Zeros(n) == [i \in 1..n |-> 0]

\* decompress_buf: zlib fills a buffer of uncompressed_size bytes (an input
\* that ends early is no error: the status of decompress is dropped), lzo
\* returns what the stream holds
decompress_buf(input, info) ==
    IF input = <<>>
    THEN IF info.compression_type = "Zlib"
         THEN [st |-> "ok", bytes |-> Zeros(info.uncompressed_size)]
         ELSE [st |-> "err"]
    ELSE IF Head(input) # CodecHeader(info.compression_type)
    THEN [st |-> "err"]
    ELSE IF info.compression_type = "Zlib"
         THEN [st |-> "ok",
               bytes |-> Take(Tail(input) \o Zeros(info.uncompressed_size),
                              info.uncompressed_size)]
         ELSE [st |-> "ok", bytes |-> Tail(input)]

\* FileEntry::get_bytes
FileGetBytes(file_entry) ==
    IF IsSome(file_entry.compression_info)
    THEN decompress_buf(file_entry.raw_bytes, file_entry.compression_info[1])
    ELSE [st |-> "ok", bytes |-> file_entry.raw_bytes]

-----------------------------------------------------------------------------
(* The size of a serialized TOC, field by field (binrw writes the fields   *)
(* in declaration order, a magic before the structure it belongs to).      *)

\* common::write_string: a u32 length and the bytes
StringSize(name) == 4 + Len(name)

RECURSIVE O1EntriesSize(_)
O1EntrySize(e) ==
    4 + 1 + (IF e.kind = "File" THEN 5 * 4 + StringSize(e.name)
             ELSE 4 + 4 + StringSize(e.name) + O1EntriesSize(e.entries))

O1EntriesSize(es) == SumSeq([i \in DOMAIN es |-> O1EntrySize(es[i])])

\* obscure1::HvpArchive: magic, header, optional Crc32, entries
O1TocSize(a) ==
    12 + 2 + 2 + 4 * 4 + (IF IsSome(a.checksums) THEN 8 ELSE 0) + O1EntriesSize(a.entries)

\* obscure2::HvpArchive: magic, header, entries of 4 + 2 + 18 bytes
O2TocSize(a) == 4 + 3 * 4 + 24 * Len(a.entries)

\* final_exam::HvpArchive: header, names, entries of 4 + 4 + 20 bytes
FETocSize(a) == 4 * 4 + (4 + Len(a.names)) + 28 * Len(a.entries)

TocSize(g, a) ==
    IF g = "Obscure1" THEN O1TocSize(a)
    ELSE IF g = "Obscure2" THEN O2TocSize(a) ELSE FETocSize(a)

-----------------------------------------------------------------------------
(* CRC32 (crc32fast) over a serialized region: the value stands for the    *)
(* region it was computed over (no two regions share a CRC); a number read *)
(* from a file that is the CRC of nothing in the model is [num |-> n].     *)

Crc32(region) == [crc_of |-> region]
CrcNum(n) == [num |-> n]

-----------------------------------------------------------------------------
(* The codecs of the TOCs.  A TOC on disk holds the stored value of every  *)
(* field; reading checks the assertions of the structures and converts.    *)

ReadOk(a) == [st |-> "ok", archive |-> a]
ReadErr == [st |-> "err"]

\* obscure1::FileEntry.is_compressed: #[br(map = |v: u32| v > 0)]
RECURSIVE O1ReadEntries(_)
O1ReadEntries(es) ==
    [i \in DOMAIN es |->
        IF es[i].kind = "File" THEN [es[i] EXCEPT !.is_compressed = (@ > 0)]
        ELSE [es[i] EXCEPT !.entries = O1ReadEntries(@)]]

\* the assertions on the entries: entry_size > 0, zero == 0, and the names
\* read by read_string are UTF-8
RECURSIVE O1EntriesValid(_)
O1EntriesValid(es) ==
    \A i \in DOMAIN es :
        /\ es[i].entry_size > 0
        /\ Utf8Valid(es[i].name)
        /\ es[i].kind = "Dir" => (es[i].zero = 0 /\ O1EntriesValid(es[i].entries))

\* obscure1::Header: the assertions as written (the one on data_offset
\* tests file_count)
O1HeaderValid(h) ==
    h.root_count > 0 /\ h.all_count > 0 /\ h.file_count > 0 /\ h.file_count > 0

\* obscure1::HvpArchive::read_be
O1Read(toc) ==
    IF /\ O1HeaderValid(toc.header)
       /\ Len(toc.entries) = toc.header.root_count
       /\ IsSome(toc.checksums) = (toc.header.minor_version = 1)
       /\ O1EntriesValid(toc.entries)
    THEN ReadOk([toc EXCEPT !.entries = O1ReadEntries(@)])
    ELSE ReadErr

\* obscure1::FileEntry.is_compressed: #[bw(map = |v| *v as u32)]
RECURSIVE O1WriteEntries(_)
O1WriteEntries(es) ==
    [i \in DOMAIN es |->
        IF es[i].kind = "File"
        THEN [es[i] EXCEPT !.is_compressed = IF @ THEN 1 ELSE 0]
        ELSE [es[i] EXCEPT !.entries = O1WriteEntries(@)]]

\* a plausible slip: the block of the two CRCs is not written
O1WriteBare(a) == [a EXCEPT !.entries = O1WriteEntries(@), !.checksums = None]

\* obscure1::HvpArchive::write_be
O1Write(a) == [a EXCEPT !.entries = O1WriteEntries(@)]

\* the assertions on the flat entries of Variants B and C
O2EntriesValid(es) ==
    \A i \in DOMAIN es :
        IF es[i].kind = "Directory"
        THEN es[i].zero1 = 0 /\ es[i].zero2 = 0 /\ es[i].zero3 = 0 /\ es[i].count > 0
        ELSE es[i].zero = 0

\* obscure2::HvpArchive::read: no check of entries_crc32 beyond > 0
O2Read(toc) ==
    IF /\ toc.header.zero = 0
       /\ toc.header.entries_count > 0
       /\ toc.header.entries_crc32 # CrcNum(0)
       /\ Len(toc.entries) = toc.header.entries_count
       /\ O2EntriesValid(toc.entries)
       /\ have_root_entry(toc.entries)
    THEN ReadOk(toc)
    ELSE ReadErr

\* obscure2::HvpArchive::write_le
O2Write(a) == a

\* Names::validate_name_offsets
validate_name_offsets(names, es) ==
    \A i \in DOMAIN es :
        /\ ~(es[i].name_offset > Len(names))
        /\ Utf8Valid(UntilNul(SubSeq(names, es[i].name_offset + 1, Len(names))))

\* final_exam::HvpArchive::read: read_entries_with_validation checks the CRC
FERead(toc) ==
    IF /\ toc.header.zero = 0
       /\ toc.header.entries_count > 0
       /\ toc.header.entries_crc32 # CrcNum(0)
       /\ Len(toc.entries) = toc.header.entries_count
       /\ O2EntriesValid(toc.entries)
       /\ toc.header.entries_crc32 = Crc32(toc.entries)
       /\ have_root_entry(toc.entries)
       /\ validate_name_offsets(toc.names, toc.entries)
    THEN ReadOk(toc)
    ELSE ReadErr

\* final_exam::Header.entries_crc32: #[bw(try_map = generate_crc32(entries))]
FEWrite(a) == [a EXCEPT !.header.entries_crc32 = Crc32(a.entries)]

\* the codec of a game applied to a TOC; a TOC of another layout fails on
\* its magic
ReadToc(g, file) ==
    IF file.layout # g THEN ReadErr
    ELSE IF g = "Obscure1" THEN O1Read(file.toc)
    ELSE IF g = "Obscure2" THEN O2Read(file.toc) ELSE FERead(file.toc)

WriteToc(g, a) ==
    IF g = "Obscure1" THEN O1Write(a)
    ELSE IF g = "Obscure2" THEN O2Write(a) ELSE FEWrite(a)

-----------------------------------------------------------------------------
(* utils.rs and provider.rs: autodetection, loading and validation *)

MagicObscure1 == <<72, 86, 32, 80, 97, 99, 107, 70>>    \* "HV PackF"
MagicObscure2LE == <<0, 0, 4, 0, 0, 0, 0, 0>>
MagicObscure2BE == <<0, 4, 0, 0, 0, 0, 0, 0>>
MagicFinalExamLE == <<0, 0, 5, 0, 0, 0, 0, 0>>
MagicFinalExamBE == <<0, 5, 0, 0, 0, 0, 0, 0>>

\* try_detect_game, the match on the 8 bytes read
DetectMatch(buf) ==
    IF buf = MagicObscure1 THEN Some("Obscure1")
    ELSE IF buf = MagicObscure2LE \/ buf = MagicObscure2BE THEN Some("Obscure2")
    ELSE None

\* try_detect_game on a reader: the position is saved, 8 bytes are read
\* from the start (read_exact fails on a shorter input, before the
\* position is restored) and the position is restored
try_detect_game(reader) ==
    IF Len(reader.bytes) < 8
    THEN [st |-> "io", game |-> None,
          reader |-> [reader EXCEPT !.pos = Len(reader.bytes)]]
    ELSE [st |-> "ok", game |-> DetectMatch(SubSeq(reader.bytes, 1, 8)),
          reader |-> [reader EXCEPT !.pos = reader.pos]]

\* u32 + u32: a build with overflow checks panics, one without wraps
U32Add(a, b, overflow_checks) ==
    IF a + b > U32Max
    THEN IF overflow_checks THEN Panic ELSE [st |-> "ok", v |-> (a + b) % U32Mod]
    ELSE [st |-> "ok", v |-> a + b]

\* Iterator::all over the checks of a list: stops at the first that fails
RECURSIVE AllOf(_)
AllOf(results) ==
    IF results = <<>> THEN "ok"
    ELSE IF Head(results) # "ok" THEN Head(results) ELSE AllOf(Tail(results))

\* the comparison of validate_entries
FitsIn(offset, size, len, overflow_checks) ==
    LET sum == U32Add(offset, size, overflow_checks)
    IN IF sum.st # "ok" THEN "panic"
       ELSE IF sum.v <= len THEN "ok" ELSE "reject"

\* validate_entries, Obscure1: check_entry
RECURSIVE O1CheckEntries(_, _, _)
O1CheckEntry(e, len, overflow_checks) ==
    IF e.kind = "Dir" THEN O1CheckEntries(e.entries, len, overflow_checks)
    ELSE IF e.uncompressed_size = 0 THEN "ok"
    ELSE FitsIn(e.offset, e.compressed_size, len, overflow_checks)

\* the entries are checked lazily, in order: only the checks up to the
\* first failure run
O1CheckEntries(es, len, overflow_checks) ==
    IF es = <<>> THEN "ok"
    ELSE LET first == O1CheckEntry(Head(es), len, overflow_checks)
         IN IF first # "ok" THEN first
            ELSE O1CheckEntries(Tail(es), len, overflow_checks)

\* validate_entries, Obscure2: every file entry, empty or not
RECURSIVE O2CheckEntries(_, _, _)
O2CheckEntries(es, len, overflow_checks) ==
    IF es = <<>> THEN "ok"
    ELSE LET e == Head(es)
             first == IF e.kind = "Directory" THEN "ok"
                      ELSE FitsIn(e.offset, e.compressed_size, len, overflow_checks)
         IN IF first # "ok" THEN first
            ELSE O2CheckEntries(Tail(es), len, overflow_checks)

\* the validation of a Variant C archive: the files with
\* uncompressed_size > 0 must fit
RECURSIVE FECheckEntries(_, _, _)
FECheckEntries(es, len, overflow_checks) ==
    IF es = <<>> THEN "ok"
    ELSE LET e == Head(es)
             first == IF e.kind = "Directory" \/ e.uncompressed_size = 0 THEN "ok"
                      ELSE FitsIn(e.offset, e.compressed_size, len, overflow_checks)
         IN IF first # "ok" THEN first
            ELSE FECheckEntries(Tail(es), len, overflow_checks)

\* a validation in the integers: what offset + compressed_size <= len says
RECURSIVE ExactCheckEntries(_, _)
ExactCheckEntries(es, len) ==
    \A i \in DOMAIN es :
        IF es[i].kind \in {"Dir"} THEN ExactCheckEntries(es[i].entries, len)
        ELSE IF es[i].kind = "Directory" THEN TRUE
        ELSE es[i].uncompressed_size = 0 \/ es[i].offset + es[i].compressed_size <= len

\* validate_entries
validate_entries(g, a, len, overflow_checks) ==
    IF g = "Obscure1" THEN O1CheckEntries(a.entries, len, overflow_checks)
    ELSE IF g = "Obscure2" THEN O2CheckEntries(a.entries, len, overflow_checks)
    ELSE FECheckEntries(a.entries, len, overflow_checks)

\* ArchiveProvider::new: the game (given or detected), the TOC, the offset
\* behind it, the map and the validation
ProviderNew(file, hint, overflow_checks) ==
    LET detected == try_detect_game([bytes |-> file.head, pos |-> 0])
        g == IF IsSome(hint) THEN hint ELSE detected.game
    IN IF ~IsSome(hint) /\ detected.st # "ok" THEN [st |-> "Io"]
       ELSE IF ~IsSome(g) THEN [st |-> "UnknownArchive"]
       ELSE LET read == ReadToc(g[1], file)
            IN IF read.st # "ok" THEN [st |-> "ArchiveLoadFailed"]
               ELSE LET valid == validate_entries(g[1], read.archive,
                                                  Len(file.mmap), overflow_checks)
                    IN IF valid = "panic" THEN Panic
                       ELSE IF valid = "reject"
                       THEN [st |-> "EntryOffsetOrSizeDoesntFit"]
                       ELSE [st |-> "ok", game |-> g[1], raw_archive |-> read.archive,
                             mmap |-> file.mmap,
                             entries_offset |-> TocSize(g[1], read.archive)]

-----------------------------------------------------------------------------
(* The archives the model opens.  A file on disk is                        *)
(*   [layout, head, toc, mmap]: the layout its TOC is written in, its      *)
(* first 8 bytes, the stored fields of the TOC, and its bytes (the bytes   *)
(* of the TOC region stand for themselves, the payloads follow).           *)
(* An archive is built from the shape of its tree: files are numbered in   *)
(* depth-first order, file k holds Content(k).                             *)

\* the most entries (files and directories) of a generated tree
MaxNodes == 3

RECURSIVE TreesExact(_), ForestsExact(_)
TreesExact(n) ==
    IF n = 1 THEN {<<"File">>, <<"Dir", <<>>>>}
    ELSE {<<"Dir", f>> : f \in ForestsExact(n - 1)}

ForestsExact(n) ==
    IF n = 0 THEN {<<>>}
    ELSE UNION {{<<t>> \o f : t \in TreesExact(k), f \in ForestsExact(n - k)} : k \in 1..n}

Forests(n) == UNION {ForestsExact(k) : k \in 1..n}

\* the files and the directories of a shape numbered depth-first
RECURSIVE NumberForest(_, _, _)
NumberForest(forest, nf, nd) ==
    IF forest = <<>> THEN [entries |-> <<>>, nf |-> nf, nd |-> nd]
    ELSE LET t == Head(forest)
             h == IF t[1] = "File"
                  THEN [entries |-> <<[kind |-> "File", id |-> nf + 1]>>,
                        nf |-> nf + 1, nd |-> nd]
                  ELSE LET sub == NumberForest(t[2], nf, nd + 1)
                       IN [entries |-> <<[kind |-> "Dir", id |-> nd + 1,
                                          entries |-> sub.entries]>>,
                           nf |-> sub.nf, nd |-> sub.nd]
             rest == NumberForest(Tail(forest), h.nf, h.nd)
         IN [entries |-> h.entries \o rest.entries, nf |-> rest.nf, nd |-> rest.nd]

RECURSIVE HasEmptyDir(_)
HasEmptyDir(forest) ==
    \E i \in DOMAIN forest :
        forest[i][1] = "Dir" /\ (forest[i][2] = <<>> \/ HasEmptyDir(forest[i][2]))

\* the plain content of file k
Content(k) == [i \in 1..k |-> 16 * k + i]

\* how the files of an archive are stored and named ("badsum": the checksum
\* of file 1 is wrong; "rooted": the name of file 1 starts with a separator;
\* "hollow": file 1 is an empty content that was compressed)
KindPatterns == {"plain", "packed", "mixed", "badsum", "rooted", "hollow"}

KindOf(pattern, k) ==
    IF pattern = "packed" THEN "packed"
    ELSE IF pattern = "mixed"
         THEN (IF k % 3 = 1 THEN "packed" ELSE IF k % 3 = 2 THEN "empty" ELSE "plain")
         ELSE IF pattern = "hollow" /\ k = 1 THEN "hollow" ELSE "plain"

\* whether file k is stored compressed
Packed(pattern, k) == KindOf(pattern, k) \in {"packed", "hollow"}

CompressionOf(g) == IF g = "Obscure1" THEN "Zlib" ELSE "Lzo"

\* the payload of file k on disk, its sizes and its checksum
Stored(g, pattern, k) ==
    IF KindOf(pattern, k) = "packed" THEN Compress(CompressionOf(g), Content(k))
    ELSE IF KindOf(pattern, k) = "hollow" THEN Compress(CompressionOf(g), <<>>)
    ELSE IF KindOf(pattern, k) = "empty" THEN <<>> ELSE Content(k)

StoredSize(g, pattern, k) == Len(Stored(g, pattern, k))

PlainSize(pattern, k) ==
    IF KindOf(pattern, k) \in {"empty", "hollow"} THEN 0 ELSE Len(Content(k))

StoredChecksum(g, pattern, k) ==
    IF pattern = "badsum" /\ k = 1
    THEN WrappingAdd(bytes_sum(Stored(g, pattern, k)), 1)
    ELSE bytes_sum(Stored(g, pattern, k))

\* how the payloads lie in the file
\* ("loose": a stored value the reader accepts and the writer never writes)
Layouts == {"canonical", "gap", "reversed", "trailing", "loose"}

\* the zero bytes that bring a position to a multiple of 4 (Variant C)
PadLen(g, pos) == IF g = "FinalExam" /\ pos % 4 # 0 THEN 4 - (pos % 4) ELSE 0

\* the payloads of the files ks laid one after the other behind bytes
RECURSIVE Place(_, _, _, _, _)
Place(g, pattern, ks, bytes, offs) ==
    IF ks = <<>> THEN [bytes |-> bytes, offs |-> offs]
    ELSE LET k == Head(ks)
             data == Stored(g, pattern, k)
             after == bytes \o data
         IN IF data = <<>> THEN Place(g, pattern, Tail(ks), bytes, offs)
            ELSE Place(g, pattern, Tail(ks),
                       after \o Zeros(PadLen(g, Len(after))),
                       [offs EXCEPT ![k] = Len(bytes)])

\* the bytes of a TOC region: the model keeps the TOC field by field, so a
\* byte of the region only marks its place
TocBytes(n) == [i \in 1..n |-> 255]

\* the file bytes and the offsets of the files for a layout
Payloads(g, pattern, layout, nf, toc_size) ==
    LET gap == IF layout = "gap" THEN Zeros(4) ELSE <<>>
        start == TocBytes(toc_size) \o gap
        order == IF layout = "reversed" THEN Reverse([k \in 1..nf |-> k])
                 ELSE [k \in 1..nf |-> k]
        placed == Place(g, pattern, order, start \o Zeros(PadLen(g, Len(start))),
                        [k \in 1..nf |-> 0])
    IN [bytes |-> placed.bytes \o (IF layout = "trailing" THEN Zeros(4) ELSE <<>>),
        offs |-> placed.offs]

-----------------------------------------------------------------------------
(* The TOC of a generated archive, per variant *)

\* the names: "f1", "f2", .. and "d1", "d2", ..
FileName(pattern, k) ==
    (IF pattern = "rooted" /\ k = 1 THEN <<47>> ELSE <<>>) \o <<102, 48 + k>>
DirName(d) == <<100, 48 + d>>

\* the entries of a Variant A TOC for a numbered shape
RECURSIVE O1Entries(_, _, _, _)
O1Entries(num, pattern, layout, offs) ==
    [i \in DOMAIN num |->
        IF num[i].kind = "File"
        THEN LET k == num[i].id
             IN O1File(1 + 5 * 4 + StringSize(FileName(pattern, k)),
                       IF Packed(pattern, k)
                       THEN (IF layout = "loose" THEN 2 ELSE 1) ELSE 0,
                       StoredSize("Obscure1", pattern, k), PlainSize(pattern, k),
                       StoredChecksum("Obscure1", pattern, k), offs[k],
                       FileName(pattern, k))
        ELSE LET sub == O1Entries(num[i].entries, pattern, layout, offs)
             IN O1Dir(1 + 4 + 4 + StringSize(DirName(num[i].id)) + O1EntriesSize(sub),
                      DirName(num[i].id), sub)]

\* a Variant A file on disk
O1Disk(forest, pattern, layout, minor_version) ==
    LET n == NumberForest(forest, 0, 0)
        blank == O1Entries(n.entries, pattern, layout, [k \in 1..n.nf |-> 0])
        toc_size == 32 + (IF minor_version = 1 THEN 8 ELSE 0) + O1EntriesSize(blank)
        pay == Payloads("Obscure1", pattern, layout, n.nf, toc_size)
        es == O1Entries(n.entries, pattern, layout, pay.offs)
        header == [major_version |-> 1, minor_version |-> minor_version,
                   root_count |-> Len(es), all_count |-> n.nf + n.nd,
                   file_count |-> n.nf, data_offset |-> toc_size]
    IN [layout |-> "Obscure1", head |-> MagicObscure1,
        toc |-> [header |-> header,
                 checksums |-> IF minor_version = 1
                               THEN Some([header |-> Crc32(header), entries |-> Crc32(es)])
                               ELSE None,
                 entries |-> es],
        mmap |-> pay.bytes]

\* Names.bytes: the empty name of the root, then every name, each ended by 0
FENames(pattern, nf, nd) ==
    <<0>> \o Concat([k \in 1..nf |-> FileName(pattern, k) \o <<0>>])
          \o Concat([d \in 1..nd |-> DirName(d) \o <<0>>])

FEFileNameOffset(pattern, k) == Len(FENames(pattern, k - 1, 0))
FEDirNameOffset(pattern, nf, d) == Len(FENames(pattern, nf, d - 1))

\* the flat entry of a node of a numbered shape (a directory gets its range
\* when its children are placed)
FlatEntry(g, node, pattern, offs, nf) ==
    IF node.kind = "File"
    THEN LET k == node.id
         IN O2File(10 + k, Packed(pattern, k), StoredChecksum(g, pattern, k),
                   PlainSize(pattern, k),
                   IF g = "FinalExam" THEN FEFileNameOffset(pattern, k) ELSE 0,
                   offs[k], StoredSize(g, pattern, k))
    ELSE O2Dir(20 + node.id,
               IF g = "FinalExam" THEN FEDirNameOffset(pattern, nf, node.id) ELSE 0, 0, 0)

\* the flat array of a tree: the children of a directory lie side by side,
\* the directories are given their ranges in the order they were placed
RECURSIVE FlatFill(_, _, _, _, _, _)
FlatFill(g, arr, pending, pattern, offs, nf) ==
    IF pending = <<>> THEN arr
    ELSE LET p == Head(pending)
             base == Len(arr)
             placed == [arr EXCEPT ![p.at].index = base,
                                   ![p.at].count = Len(p.entries)]
                       \o [i \in DOMAIN p.entries |->
                            FlatEntry(g, p.entries[i], pattern, offs, nf)]
             subdirs == SelectSeq([i \in DOMAIN p.entries |->
                                     [at |-> base + i, node |-> p.entries[i]]],
                                  LAMBDA x : x.node.kind = "Dir")
         IN FlatFill(g, placed,
                     Tail(pending) \o [i \in DOMAIN subdirs |->
                         [at |-> subdirs[i].at, entries |-> subdirs[i].node.entries]],
                     pattern, offs, nf)

FlatEntries(g, num, pattern, offs, nf) ==
    FlatFill(g, <<O2Dir(0, 0, 0, 0)>>, <<[at |-> 1, entries |-> num]>>, pattern, offs, nf)

\* a Variant B file on disk
O2Disk(forest, pattern, layout) ==
    LET n == NumberForest(forest, 0, 0)
        toc_size == 16 + 24 * (1 + n.nf + n.nd)
        pay == Payloads("Obscure2", pattern, layout, n.nf, toc_size)
        es == FlatEntries("Obscure2", n.entries, pattern, pay.offs, n.nf)
    IN [layout |-> "Obscure2", head |-> MagicObscure2LE,
        toc |-> [header |-> [zero |-> 0, entries_count |-> Len(es),
                             entries_crc32 |-> IF layout = "loose" THEN CrcNum(7)
                                               ELSE Crc32(es)],
                 entries |-> es],
        mmap |-> pay.bytes]

\* a Variant C file on disk
FEDisk(forest, pattern, layout) ==
    LET n == NumberForest(forest, 0, 0)
        names == FENames(pattern, n.nf, n.nd)
        toc_size == 16 + 4 + Len(names) + 28 * (1 + n.nf + n.nd)
        pay == Payloads("FinalExam", pattern, layout, n.nf, toc_size)
        es == FlatEntries("FinalExam", n.entries, pattern, pay.offs, n.nf)
    IN [layout |-> "FinalExam", head |-> MagicFinalExamLE,
        toc |-> [header |-> [magic |-> SubSeq(MagicFinalExamLE, 1, 4), zero |-> 0,
                             entries_count |-> Len(es), entries_crc32 |-> Crc32(es)],
                 names |-> names,
                 entries |-> es],
        mmap |-> pay.bytes]

\* the shapes with at least one file; Variants B and C have no empty directory
RECURSIVE FilesIn(_)
FilesIn(forest) ==
    SumSeq([i \in DOMAIN forest |->
        IF forest[i][1] = "File" THEN 1 ELSE FilesIn(forest[i][2])])

Shapes(n) == {f \in Forests(n) : FilesIn(f) > 0}
FlatShapes(n) == {f \in Shapes(n) : ~HasEmptyDir(f)}

\* the generated archives of a game
Disks(g, n, patterns, layouts) ==
    IF g = "Obscure1"
    THEN {O1Disk(f, p, l, v) : f \in Shapes(n), p \in patterns, l \in layouts, v \in {0, 1}}
    ELSE IF g = "Obscure2"
    THEN {O2Disk(f, p, l) : f \in FlatShapes(n), p \in patterns, l \in layouts}
    ELSE {FEDisk(f, p, l) : f \in FlatShapes(n), p \in patterns, l \in layouts}

Games == {"Obscure1", "Obscure2", "FinalExam"}

-----------------------------------------------------------------------------
(* The sink of a rebuild (W: Write + Seek) and the replacements.           *)
(* A sink is [bytes, pos, limit, seekable, toc, log]: what it holds, its   *)
(* position, the length it cannot grow beyond (a write past it fails, as   *)
(* on a full device or a fixed buffer), whether it can seek, the TOC that  *)
(* was serialized into it and where, and the writes made, in order.        *)

Max(a, b) == IF a > b THEN a ELSE b

\* the bytes of a sink after data is written at pos (a hole reads as zeros)
Overlay(bytes, pos, data) ==
    [i \in 1..Max(Len(bytes), pos + Len(data)) |->
        IF i > pos /\ i <= pos + Len(data) THEN data[i - pos]
        ELSE IF i <= Len(bytes) THEN bytes[i] ELSE 0]

\* the sink once the bytes that fit are in it
SinkPut(sink, fits, what, st) ==
    [st |-> st,
     sink |-> [sink EXCEPT !.bytes = IF fits = <<>> THEN @ ELSE Overlay(@, sink.pos, fits),
                           !.pos = @ + Len(fits),
                           !.log = Append(@, [what |-> what, pos |-> sink.pos,
                                              len |-> Len(fits)])]]

\* Write::write_all: what fits is written, the rest fails
SinkWrite(sink, data, what) ==
    IF Len(data) <= sink.limit - sink.pos THEN SinkPut(sink, data, what, "ok")
    ELSE SinkPut(sink, Take(data, Max(sink.limit - sink.pos, 0)), what, "Io")

\* the files an UpdateKind::File can name
Fs == ("new.bin" :> <<7, 7>>)

\* UpdateKind::to_bytes
to_bytes(update) ==
    IF update.kind = "Bytes" THEN [st |-> "ok", bytes |-> update.bytes]
    ELSE IF update.path \in DOMAIN Fs THEN [st |-> "ok", bytes |-> Fs[update.path]]
    ELSE [st |-> "Io"]

UpdateBytes(bytes) == [kind |-> "Bytes", bytes |-> bytes]
UpdateFile(path) == [kind |-> "File", path |-> path]

\* self.offset += n (u32): the updater after n more bytes
AdvanceTo(upd, sum) ==
    IF sum.st # "ok" THEN [st |-> "panic", upd |-> upd]
    ELSE [st |-> "ok", upd |-> [upd EXCEPT !.offset = sum.v]]

\* a plausible slip: the offset stays where it was
NoAdvance(upd, n, cfg) == [st |-> "ok", upd |-> upd]

Advance(upd, n, cfg) == AdvanceTo(upd, U32Add(upd.offset, n % U32Mod, cfg.overflow_checks))

\* the updater after write_all returned w: an error ends the rebuild,
\* otherwise the offset advances by the n bytes written
Wrote(upd, w, n, cfg) ==
    IF w.st # "ok" THEN [st |-> w.st, upd |-> [upd EXCEPT !.sink = w.sink]]
    ELSE Advance([upd EXCEPT !.sink = w.sink], n, cfg)

\* a plausible slip: the offset advances and nothing is written
WriteNothing(upd, data, cfg) == Advance(upd, Len(data), cfg)

\* write_all of a payload and the advance of the offset
WritePayload(upd, data, cfg) ==
    Wrote(upd, SinkWrite(upd.sink, data, "payload"), Len(data), cfg)

\* the result of updating one raw entry
Updated(r, entry) == [st |-> r.st, upd |-> r.upd, entry |-> entry]

\* RebuildProgress::inc(Some(format!("(tag) {name}"))): the messages are kept
\* with the sink, in the order they are given
Inc(upd, tag, name) ==
    [upd EXCEPT !.sink.progress = Append(@, [tag |-> tag, name |-> name])]

-----------------------------------------------------------------------------
(* archive/obscure1.rs: update_entries and the Updater of Variant A *)

\* obscure1::Updater::process_file, the entry has an update: the bytes are
\* written as they are or compressed with zlib
O1Replace(upd, o1, bytes, cfg) ==
    IF bytes.st # "ok" THEN [st |-> "Io", upd |-> upd, entry |-> o1]
    ELSE IF cfg.skip_compression \/ ~o1.is_compressed
    THEN Updated(WritePayload(Inc(upd, "(upd)", o1.name), bytes.bytes, cfg),
                 [o1 EXCEPT !.compressed_size = Len(bytes.bytes),
                            !.uncompressed_size = Len(bytes.bytes),
                            !.is_compressed = FALSE,
                            !.checksum = bytes_sum(bytes.bytes)])
    ELSE Updated(WritePayload(Inc(upd, "(upd)", o1.name), Compress("Zlib", bytes.bytes), cfg),
                 [o1 EXCEPT !.compressed_size = Len(Compress("Zlib", bytes.bytes)),
                            !.uncompressed_size = Len(bytes.bytes),
                            !.checksum = bytes_sum(Compress("Zlib", bytes.bytes))])

\* a plausible slip: an entry of uncompressed_size 0 is treated as any other
O1UpdateFileNoSkip(upd, o_entry, u_entry, cfg) ==
    IF ~IsSome(u_entry.update)
    THEN Updated(WritePayload(Inc(upd, "(src)", o_entry.name), u_entry.raw_bytes, cfg),
                 [o_entry EXCEPT !.offset = upd.offset])
    ELSE O1Replace(upd, [o_entry EXCEPT !.offset = upd.offset],
                   to_bytes(u_entry.update[1]), cfg)

\* obscure1::Updater::process_file
O1UpdateFile(upd, o_entry, u_entry, cfg) ==
    IF o_entry.uncompressed_size = 0
    THEN [st |-> "ok", upd |-> Inc(upd, "(skp)", o_entry.name), entry |-> o_entry]
    ELSE IF ~IsSome(u_entry.update)
    THEN Updated(WritePayload(Inc(upd, "(src)", o_entry.name), u_entry.raw_bytes, cfg),
                 [o_entry EXCEPT !.offset = upd.offset])
    ELSE O1Replace(upd, [o_entry EXCEPT !.offset = upd.offset],
                   to_bytes(u_entry.update[1]), cfg)

\* obscure1::Updater::process_dir, the directory once its entries are done
O1DirDone(o, sub) ==
    [st |-> sub.st, upd |-> sub.upd, entry |-> [o EXCEPT !.entries = sub.entries]]

\* the entries of a list once the first is done and the others are
O1Cons(entry, rest) ==
    [st |-> rest.st, upd |-> rest.upd, entries |-> <<entry>> \o rest.entries]

\* obscure1::Updater::process_dir and the loop of update_entries: the raw
\* and the unified entries are zipped (the shorter list ends the walk), a
\* pair of different kinds is unreachable!()
RECURSIVE O1UpdateList(_, _, _, _)
O1UpdatePair(upd, o, u, cfg) ==
    IF o.kind = "File" /\ u.kind = "File" THEN O1UpdateFile(upd, o, u, cfg)
    ELSE IF o.kind = "Dir" /\ u.kind = "Dir"
    THEN O1DirDone(o, O1UpdateList(upd, o.entries, u.entries, cfg))
    ELSE [st |-> "panic", upd |-> upd, entry |-> o]

O1UpdateRest(first, os, us, cfg) ==
    IF first.st # "ok" THEN [st |-> first.st, upd |-> first.upd, entries |-> os]
    ELSE O1Cons(first.entry, O1UpdateList(first.upd, Tail(os), Tail(us), cfg))

O1UpdateList(upd, os, us, cfg) ==
    IF os = <<>> \/ us = <<>> THEN [st |-> "ok", upd |-> upd, entries |-> os]
    ELSE O1UpdateRest(O1UpdatePair(upd, Head(os), Head(us), cfg), os, us, cfg)

\* the archive update_entries returns
O1Finish(r, archive) ==
    [st |-> r.st, upd |-> r.upd, archive |-> [archive EXCEPT !.entries = r.entries]]

\* obscure1::update_entries
O1UpdateEntries(upd, archive, us, cfg) ==
    IF Len(archive.entries) # Len(us)
    THEN [st |-> "panic", upd |-> upd, archive |-> archive]
    ELSE O1Finish(O1UpdateList(upd, archive.entries, us, cfg), archive)

-----------------------------------------------------------------------------
(* archive/obscure2.rs and archive/final_exam.rs: update_entries and the   *)
(* Updater of Variants B and C.  The updater patches the flat array in     *)
(* place; the result of a step is the updater and the array.               *)

\* a plausible slip: the cursor is left where the payload ended
PadNothing(g, upd, cfg) == [st |-> "ok", upd |-> upd]

\* final_exam::Updater::caculate_and_apply_padding (Variant B has none)
ApplyPadding(g, upd, cfg) ==
    IF g # "FinalExam" \/ upd.offset % 4 = 0 THEN [st |-> "ok", upd |-> upd]
    ELSE Wrote(upd, SinkWrite(upd.sink, Zeros(4 - (upd.offset % 4)), "padding"),
               4 - (upd.offset % 4), cfg)

\* the tag of an entry written uncompressed: the updaters leave it as it was
KeepTag(kind) == kind

\* Updater::process_file, the entry has an update: the bytes are written as
\* they are or compressed with LZO
O2Replace(upd, o1, u_entry, bytes, cfg) ==
    IF bytes.st # "ok" THEN [st |-> "Io", upd |-> upd, entry |-> o1]
    ELSE IF cfg.skip_compression \/ ~IsSome(u_entry.compression_info)
    THEN Updated(WritePayload(Inc(upd, "(upd)", u_entry.name), bytes.bytes, cfg),
                 [o1 EXCEPT !.kind = KeepTag(@),
                            !.compressed_size = Len(bytes.bytes),
                            !.uncompressed_size = Len(bytes.bytes),
                            !.checksum = bytes_sum(bytes.bytes)])
    ELSE Updated(WritePayload(Inc(upd, "(upd)", u_entry.name), Compress("Lzo", bytes.bytes), cfg),
                 [o1 EXCEPT !.compressed_size = Len(Compress("Lzo", bytes.bytes)),
                            !.uncompressed_size = Len(bytes.bytes),
                            !.checksum = bytes_sum(Compress("Lzo", bytes.bytes))])

\* the name of the messages: the name map or the names blob gives it
O2UpdateName(g, o_entry, cfg) ==
    IF g = "FinalExam" THEN get_name_by_offset(cfg.names, o_entry.name_offset).name
    ELSE O2Name(o_entry.name_crc32, TRUE)

\* obscure2::Updater::process_file / final_exam::Updater::process_file
O2UpdateFile(g, upd, o_entry, u_entry, cfg) ==
    IF o_entry.checksum # u_entry.checksum
    THEN [st |-> "panic", upd |-> upd, entry |-> o_entry]
    ELSE IF g = "FinalExam" /\ get_name_by_offset(cfg.names, o_entry.name_offset).st # "ok"
    THEN [st |-> "panic", upd |-> upd, entry |-> o_entry]
    ELSE IF o_entry.uncompressed_size = 0
    THEN [st |-> "ok", upd |-> Inc(upd, "(skp)", O2UpdateName(g, o_entry, cfg)),
          entry |-> o_entry]
    ELSE IF ~IsSome(u_entry.update)
    THEN Updated(WritePayload(Inc(upd, "(src)", O2UpdateName(g, o_entry, cfg)),
                              u_entry.raw_bytes, cfg),
                 [o_entry EXCEPT !.offset = upd.offset])
    ELSE O2Replace(upd, [o_entry EXCEPT !.offset = upd.offset],
                   [u_entry EXCEPT !.name = O2UpdateName(g, o_entry, cfg)],
                   to_bytes(u_entry.update[1]), cfg)

\* the array once the padding behind a file entry is written
O2Padded(pad, patched) == [st |-> pad.st, upd |-> pad.upd, entries |-> patched]

\* Updater::process_entry on a file: the entry is patched in the array and
\* Variant C pads the sink behind the payload
O2FileDone(g, f, flat, o_entry_idx, cfg) ==
    IF f.st # "ok"
    THEN [st |-> f.st, upd |-> f.upd, entries |-> [flat EXCEPT ![o_entry_idx + 1] = f.entry]]
    ELSE O2Padded(ApplyPadding(g, f.upd, cfg), [flat EXCEPT ![o_entry_idx + 1] = f.entry])

\* Updater::process_entry and process_dir: the entries of a range, each with
\* the next unified entry; a missing unified entry and a pair of different
\* kinds are unreachable!(), an index beyond the array is out of bounds
RECURSIVE O2UpdateRange(_, _, _, _, _, _, _, _)
O2UpdateEntry(g, upd, flat, o_entry_idx, u_entry, cfg, depth) ==
    IF o_entry_idx + 1 > Len(flat) THEN [st |-> "panic", upd |-> upd, entries |-> flat]
    ELSE IF flat[o_entry_idx + 1].kind # "Directory" /\ u_entry.kind = "File"
    THEN O2FileDone(g, O2UpdateFile(g, upd, flat[o_entry_idx + 1], u_entry, cfg),
                    flat, o_entry_idx, cfg)
    ELSE IF flat[o_entry_idx + 1].kind = "Directory" /\ u_entry.kind = "Dir"
    THEN IF depth > Len(flat)
         THEN [st |-> "overflow", upd |-> upd, entries |-> flat]
         ELSE O2UpdateRange(g, upd, flat, entries_range(flat[o_entry_idx + 1]).start,
                            entries_range(flat[o_entry_idx + 1]).end, u_entry.entries,
                            cfg, depth + 1)
    ELSE [st |-> "panic", upd |-> upd, entries |-> flat]

O2UpdateNext(g, first, start, end, us, cfg, depth) ==
    IF first.st # "ok" THEN first
    ELSE O2UpdateRange(g, first.upd, first.entries, start + 1, end, Tail(us), cfg, depth)

O2UpdateRange(g, upd, flat, start, end, us, cfg, depth) ==
    IF start >= end THEN [st |-> "ok", upd |-> upd, entries |-> flat]
    ELSE IF us = <<>> THEN [st |-> "panic", upd |-> upd, entries |-> flat]
    ELSE O2UpdateNext(g, O2UpdateEntry(g, upd, flat, start, Head(us), cfg, depth),
                      start, end, us, cfg, depth)

\* a plausible slip: the header keeps the CRC that was read
KeepChecksums(archive) == archive

\* obscure2::HvpArchive::update_checksums
O2UpdateChecksums(archive) ==
    [archive EXCEPT !.header.entries_crc32 = Crc32(archive.entries)]

\* the archive update_entries returns: Variant B recomputes entries_crc32
O2Finish(g, r, archive) ==
    [st |-> r.st, upd |-> r.upd,
     archive |-> IF g = "Obscure2" /\ r.st = "ok"
                 THEN O2UpdateChecksums([archive EXCEPT !.entries = r.entries])
                 ELSE [archive EXCEPT !.entries = r.entries]]

\* update_entries behind the first padding: the range of the root entry
O2UpdateFrom(g, pad, archive, us, cfg) ==
    IF pad.st # "ok" THEN [st |-> pad.st, upd |-> pad.upd, archive |-> archive]
    ELSE O2Finish(g, O2UpdateRange(g, pad.upd, archive.entries, 1,
                                   1 + archive.entries[1].count, us,
                                   [cfg EXCEPT !.names =
                                       IF g = "FinalExam" THEN archive.names ELSE <<>>],
                                   1),
                  archive)

\* obscure2::update_entries and final_exam::update_entries
O2UpdateEntries(g, upd, archive, us, cfg) ==
    IF ~have_root_entry(archive.entries)
    THEN [st |-> "panic", upd |-> upd, archive |-> archive]
    ELSE O2UpdateFrom(g, ApplyPadding(g, upd, cfg), archive, us, cfg)

-----------------------------------------------------------------------------
(* archive/mod.rs: Archive::rebuild *)

\* the sink of a fresh rebuild
NewSink(prefix, limit, seekable) ==
    [bytes |-> prefix, pos |-> Len(prefix), limit |-> limit, seekable |-> seekable,
     toc |-> None, toc_pos |-> 0, log |-> <<>>, progress |-> <<>>]

\* a plausible slip: no room is kept for the TOC
ReserveNothing(sink, entries_offset) == [st |-> "ok", sink |-> sink]

\* the room of the TOC: a seek over it, or zeros when the sink cannot seek
Reserve(sink, entries_offset) ==
    IF sink.seekable
    THEN [st |-> "ok", sink |-> [sink EXCEPT !.pos = @ + entries_offset]]
    ELSE SinkWrite(sink, Zeros(entries_offset), "zeros")

\* the sink once the TOC is serialized into it
TocWritten(w, toc, start_pos) ==
    IF w.st # "ok" THEN w
    ELSE [st |-> "ok", sink |-> [w.sink EXCEPT !.toc = Some(toc), !.toc_pos = start_pos]]

\* seek(SeekFrom::Start(start_pos)) and write_be / write_le of the TOC
WriteBack(g, sink, start_pos, archive) ==
    IF ~sink.seekable THEN [st |-> "Io", sink |-> sink]
    ELSE TocWritten(SinkWrite([sink EXCEPT !.pos = start_pos],
                              TocBytes(TocSize(g, WriteToc(g, archive))), "toc"),
                    WriteToc(g, archive), start_pos)

\* a plausible slip: the rebuild patches the provider's TOC
PatchedInPlace(raw_archive, updated) == updated

\* archive.clone(): the provider keeps the TOC it parsed
Cloned(raw_archive, updated) == raw_archive

\* the match on the raw archive
UpdateEntries(g, upd, archive, us, cfg) ==
    IF g = "Obscure1" THEN O1UpdateEntries(upd, archive, us, cfg)
    ELSE O2UpdateEntries(g, upd, archive, us, cfg)

\* the result of a rebuild whose TOC write returned w
Written(w, archive) == [st |-> w.st, sink |-> w.sink, archive |-> archive]

\* a plausible slip: the TOC is written back whatever update_entries returned
WriteBackAlways(g, start_pos, r) ==
    [st |-> r.st, sink |-> WriteBack(g, r.upd.sink, start_pos, r.archive).sink,
     archive |-> r.archive]

\* Archive::rebuild behind update_entries: an error is returned, otherwise
\* the TOC is written back at start_pos
RebuildEnd(g, start_pos, r) ==
    IF r.st # "ok" THEN [st |-> r.st, sink |-> r.upd.sink, archive |-> r.archive]
    ELSE Written(WriteBack(g, r.upd.sink, start_pos, r.archive), r.archive)

\* Archive::rebuild behind the room of the TOC: offset is the position of
\* the sink as a u32
RebuildFrom(p, us, start_pos, reserved, cfg) ==
    IF reserved.st # "ok"
    THEN [st |-> reserved.st, sink |-> reserved.sink, archive |-> p.raw_archive]
    ELSE RebuildEnd(p.game, start_pos,
                    UpdateEntries(p.game,
                                  [sink |-> reserved.sink,
                                   offset |-> reserved.sink.pos % U32Mod],
                                  p.raw_archive, us, cfg))

\* Archive::rebuild
Rebuild(p, us, sink, cfg) ==
    RebuildFrom(p, us, sink.pos, Reserve(sink, p.entries_offset), cfg)

-----------------------------------------------------------------------------
(* Loading a file and reading back the output of a rebuild *)

\* ArchiveProvider::new followed by Archive::new_with_options
Load(file, hint, overflow_checks) ==
    LET p == ProviderNew(file, hint, overflow_checks)
    IN IF p.st # "ok" THEN [st |-> p.st]
       ELSE LET mapped == MapEntries(p.game, p.mmap, p.raw_archive)
            IN IF mapped.st # "ok" THEN [st |-> mapped.st]
               ELSE [st |-> "ok", provider |-> p, entries |-> mapped.entries,
                     metadata |-> Metadata(mapped, p.game)]

MagicOf(g) ==
    IF g = "Obscure1" THEN MagicObscure1
    ELSE IF g = "Obscure2" THEN MagicObscure2LE ELSE MagicFinalExamLE

\* the file a sink holds once a rebuild that started at position 0 is over
OutDisk(g, sink) ==
    [layout |-> g, head |-> MagicOf(g), toc |-> sink.toc[1], mmap |-> sink.bytes]

-----------------------------------------------------------------------------
(* The specification of the public API of a loaded archive: the iterators, *)
(* update() and what entries_mut() lets a caller do to the tree.           *)

\* Options::default()
DefaultOptions == [rebuild_skip_compression |-> FALSE]

\* the hint a file is opened with: Variant C is not autodetected
HintFor(file) == IF file.layout = "FinalExam" THEN Some("FinalExam") ELSE None

\* the state of a run once file is loaded
Loaded(file) ==
    LET a == Load(file, HintFor(file), build)
    IN /\ a.st = "ok"
       /\ disk = file
       /\ provider = a.provider
       /\ entries = a.entries
       /\ metadata = a.metadata
       /\ loaded0 = a.entries
       /\ reshaped = FALSE
       /\ iter = None
       /\ yielded = <<>>
       /\ last = "none"
       /\ outs = <<>>
       /\ pc = "loaded"

\* the archives of the specification
ApiDisks ==
    Disks("Obscure1", MaxNodes, {"plain", "badsum", "rooted"}, {"canonical"})
    \cup Disks("Obscure2", MaxNodes, {"mixed", "badsum"}, {"canonical"})
    \cup Disks("FinalExam", MaxNodes, {"packed", "rooted"}, {"canonical"})

Init ==
    /\ build = TRUE
    /\ options = DefaultOptions
    /\ \E file \in ApiDisks : Loaded(file)

\* Archive::files
Files ==
    /\ iter = None
    /\ iter' = Some(IterNew(entries, metadata.file_count, FALSE))
    /\ yielded' = <<>>
    /\ last' = "none"
    /\ UNCHANGED <<disk, build, options, provider, entries, metadata, loaded0, reshaped, outs, pc>>

\* Archive::files_mut
FilesMut ==
    /\ iter = None
    /\ iter' = Some(IterNew(entries, metadata.file_count, TRUE))
    /\ yielded' = <<>>
    /\ last' = "none"
    /\ UNCHANGED <<disk, build, options, provider, entries, metadata, loaded0, reshaped, outs, pc>>

\* Iterator::next on the live iterator
NextFile ==
    /\ iter # None
    /\ LET r == IterNext(iter[1])
       IN /\ iter' = Some(r.it)
          /\ IF IsSome(r.item)
             THEN /\ yielded' = Append(yielded, [path |-> r.item[1].path,
                                                 pos |-> r.item[1].pos])
                  /\ last' = "some"
             ELSE /\ yielded' = yielded
                  /\ last' = "end"
    /\ UNCHANGED <<disk, build, options, provider, entries, metadata, loaded0, reshaped, outs, pc>>

\* the replacement the callers of this specification attach
ApiUpdate == UpdateBytes(<<201>>)

\* FullFileEntryMut::update on the entry the iterator returned last
Update ==
    /\ iter # None
    /\ iter[1].mutable
    /\ last = "some"
    /\ entries' = SetUpdate(entries, yielded[Len(yielded)].pos, Some(ApiUpdate))
    /\ UNCHANGED <<disk, build, options, provider, metadata, loaded0, reshaped, iter, yielded,
                   last, outs, pc>>

\* the iterator is dropped
DropIter ==
    /\ iter # None
    /\ iter' = None
    /\ yielded' = <<>>
    /\ last' = "none"
    /\ UNCHANGED <<disk, build, options, provider, entries, metadata, loaded0, reshaped, outs, pc>>

\* the positions of the directories of a tree
RECURSIVE DirPositions(_, _)
DirPositions(es, at) ==
    UNION {IF es[i].kind = "Dir"
           THEN {Append(at, i)} \cup DirPositions(es[i].entries, Append(at, i))
           ELSE {} : i \in DOMAIN es}

\* through entries_mut(): DirEntry.entries is a public Vec, here cleared
ClearDir ==
    /\ iter = None
    /\ ~reshaped
    /\ \E pos \in DirPositions(entries, <<>>) :
          /\ EntryAt(entries, pos).entries # <<>>
          /\ entries' = ReplaceAt(entries, pos,
                                  [EntryAt(entries, pos) EXCEPT !.entries = <<>>])
    /\ reshaped' = TRUE
    /\ UNCHANGED <<disk, build, options, provider, metadata, loaded0, iter, yielded, last,
                   outs, pc>>

\* through entries_mut(): a clone of its first child pushed to a directory
PushClone ==
    /\ iter = None
    /\ ~reshaped
    /\ \E pos \in DirPositions(entries, <<>>) :
          /\ EntryAt(entries, pos).entries # <<>>
          /\ entries' = ReplaceAt(entries, pos,
                [EntryAt(entries, pos) EXCEPT !.entries = Append(@, @[1])])
    /\ reshaped' = TRUE
    /\ UNCHANGED <<disk, build, options, provider, metadata, loaded0, iter, yielded, last,
                   outs, pc>>

\* through entries_mut(): an element of the slice assigned a clone of another
ReplaceEntry ==
    /\ iter = None
    /\ ~reshaped
    /\ \E i, j \in DOMAIN entries :
          /\ entries[i].kind # entries[j].kind
          /\ entries' = [entries EXCEPT ![i] = entries[j]]
    /\ reshaped' = TRUE
    /\ UNCHANGED <<disk, build, options, provider, metadata, loaded0, iter, yielded, last,
                   outs, pc>>

Next ==
    \/ Files
    \/ FilesMut
    \/ NextFile
    \/ Update
    \/ DropIter
    \/ ClearDir
    \/ PushClone
    \/ ReplaceEntry

Spec == Init /\ [][Next]_vars

-----------------------------------------------------------------------------
(* Properties of the loaded archive and of its iterators *)

\* the positions of the files of a tree in depth-first pre-order, the
\* children of a directory in their order
RECURSIVE PreOrder(_, _)
PreOrder(es, at) ==
    Concat([i \in DOMAIN es |->
        IF es[i].kind = "File" THEN <<Append(at, i)>>
        ELSE PreOrder(es[i].entries, Append(at, i))])

\* the names of the entries on the way from the top level to a position
RECURSIVE NamesAlong(_, _)
NamesAlong(es, pos) ==
    IF Len(pos) = 1 THEN <<es[pos[1]].name>>
    ELSE <<es[pos[1]].name>> \o NamesAlong(es[pos[1]].entries, Tail(pos))

\* every file of a tree, at any depth, has the checksum of its raw bytes
EveryFileMatches(es) ==
    \A i \in DOMAIN PreOrder(es, <<>>) :
        LET f == EntryAt(es, PreOrder(es, <<>>)[i])
        IN bytes_sum(f.raw_bytes) = f.checksum

\* C3: entries_checksum_match() is true if and only if every file entry of
\* the archive, at any depth of the tree, has the wrapping sum of its raw
\* bytes as its checksum
C3_ChecksumMatchAtAnyDepth ==
    entries_checksum_match(entries) <=> EveryFileMatches(entries)

\* C4: a file iterator yields exactly metadata.file_count entries, len() is
\* file_count minus the number of entries yielded so far, and len() is 0
\* exactly when next() returns None
C4_IterationCount ==
    iter # None =>
        /\ IterLen(iter[1]) = metadata.file_count - Len(yielded)
        /\ (last = "end" => Len(yielded) = metadata.file_count)
        /\ (IterLen(iter[1]) = 0 <=> ~IsSome(IterNext(iter[1]).item))

\* C5: the iterator visits the files in depth-first pre-order keeping the
\* order of the children, and the components of every yielded path are the
\* names of the file's ancestors from the top level down, then its own name
C5_PathComposition ==
    iter # None =>
        /\ [i \in DOMAIN yielded |-> yielded[i].pos]
              = Take(PreOrder(entries, <<>>), Len(yielded))
        /\ (last = "end" => Len(yielded) = Len(PreOrder(entries, <<>>)))
        /\ \A i \in DOMAIN yielded :
              Components(yielded[i].path) = NamesAlong(entries, yielded[i].pos)

\* the number of entries of a kind in a raw TOC
RECURSIVE RawCount(_, _)
RawCount(es, kinds) ==
    SumSeq([i \in DOMAIN es |->
        (IF es[i].kind \in kinds THEN 1 ELSE 0)
        + (IF es[i].kind = "Dir" THEN RawCount(es[i].entries, kinds) ELSE 0)])

\* the root directory of the flat variants
SyntheticRoots(g) == IF g = "Obscure1" THEN 0 ELSE 1

\* C6: metadata.file_count and metadata.dir_count are the numbers of File and
\* Dir entries of the unified tree, the synthetic root of Variants B and C
\* is neither in the tree nor counted, and this stays so after update() calls
C6_MetadataCounts ==
    ~reshaped =>
        /\ metadata.file_count = CountKind(entries, "File")
        /\ metadata.dir_count = CountKind(entries, "Dir")
        /\ metadata.file_count
              = RawCount(provider.raw_archive.entries, {"File", "FileCompressed"})
        /\ metadata.dir_count
              = RawCount(provider.raw_archive.entries, {"Dir", "Directory"})
                - SyntheticRoots(provider.game)
        /\ metadata.game = provider.game

\* a flat archive with a directory, one of its files updated
C6_Witness ==
    /\ ~reshaped
    /\ provider.game = "Obscure2"
    /\ metadata.dir_count > 0
    /\ \E i \in DOMAIN AllFiles(entries) : IsSome(AllFiles(entries)[i].entry.update)

\* C8: nothing a caller can do through the public API changes the shape of
\* the unified tree: the number of entries at every level and the kind at
\* every position are as they were at load
C8_ShapeFixed == Shape(entries) = Shape(loaded0)

-----------------------------------------------------------------------------
(* The specification of opening a file: autodetection, ArchiveProvider::new *)
(* and Archive::new, on well-formed files, on files whose first file entry *)
(* was given another place, and on files that are no archive.              *)

\* the first file entry of a Variant A TOC given an offset and sizes
RECURSIVE O1Tamper(_, _, _, _)
O1Tamper(es, offset, compressed_size, uncompressed_size) ==
    IF es = <<>> THEN [done |-> FALSE, entries |-> es]
    ELSE IF Head(es).kind = "File"
    THEN [done |-> TRUE,
          entries |-> <<[Head(es) EXCEPT !.offset = offset,
                                         !.compressed_size = compressed_size,
                                         !.uncompressed_size = uncompressed_size]>>
                      \o Tail(es)]
    ELSE LET sub == O1Tamper(Head(es).entries, offset, compressed_size, uncompressed_size)
             rest == O1Tamper(Tail(es), offset, compressed_size, uncompressed_size)
         IN IF sub.done
            THEN [done |-> TRUE,
                  entries |-> <<[Head(es) EXCEPT !.entries = sub.entries]>> \o Tail(es)]
            ELSE [done |-> rest.done, entries |-> <<Head(es)>> \o rest.entries]

\* the same for the flat array of Variants B and C
O2Tamper(es, offset, compressed_size, uncompressed_size) ==
    LET first == CHOOSE i \in DOMAIN es :
                    /\ es[i].kind # "Directory"
                    /\ \A j \in 1..(i - 1) : es[j].kind = "Directory"
    IN [es EXCEPT ![first] = [@ EXCEPT !.offset = offset,
                                       !.compressed_size = compressed_size,
                                       !.uncompressed_size = uncompressed_size]]

\* a file whose first file entry lies elsewhere (the CRC of a Variant C TOC
\* is the one of the entries it holds)
Tamper(file, offset, compressed_size, uncompressed_size) ==
    IF file.layout = "Obscure1"
    THEN [file EXCEPT !.toc.entries =
            O1Tamper(@, offset, compressed_size, uncompressed_size).entries]
    ELSE LET es == O2Tamper(file.toc.entries, offset, compressed_size, uncompressed_size)
         IN [file EXCEPT !.toc.entries = es,
                         !.toc.header.entries_crc32 =
                            IF file.layout = "FinalExam" THEN Crc32(es) ELSE @]

\* the places a first file entry is given: at the end of the file, one byte
\* beyond it, and at the end of the u32 range; with and without content
Tampers(file) ==
    {<<Len(file.mmap) - 1, 1, 1>>, <<Len(file.mmap), 1, 1>>, <<U32Max - 3, 8, 1>>,
     <<U32Max - 3, 8, 0>>, <<Len(file.mmap), 1, 0>>}

\* files that are no archive: only their first bytes matter
NoArchive(bytes) == [layout |-> "none", head |-> Take(bytes, 8), toc |-> <<>>, mmap |-> bytes]

NoArchives ==
    {NoArchive(b) : b \in {Zeros(8), Zeros(4), <<>>, <<72, 86, 32, 80, 97, 99, 107, 88>>,
                           <<0, 0, 3, 0, 0, 0, 0, 0>>, <<0, 0, 4, 0, 0, 0, 0, 1>>,
                           MagicObscure1, MagicObscure2LE, MagicObscure2BE,
                           MagicFinalExamLE, MagicFinalExamBE}}

WellFormed == UNION {Disks(g, 2, {"plain"}, {"canonical"}) : g \in Games}

\* the Variant A files with one count of the header, or its data_offset, at 0
HeaderFields == {"root_count", "all_count", "file_count", "data_offset"}

ZeroedHeaders ==
    {[d EXCEPT !.toc.header = [@ EXCEPT ![f] = 0]] :
        d \in {w \in WellFormed : w.layout = "Obscure1"}, f \in HeaderFields}

\* a Variant C file whose first file entry names itself at an offset
FESetNameOffset(file, name_offset) ==
    LET first == CHOOSE i \in DOMAIN file.toc.entries :
                    /\ file.toc.entries[i].kind # "Directory"
                    /\ \A j \in 1..(i - 1) : file.toc.entries[j].kind = "Directory"
        es == [file.toc.entries EXCEPT ![first].name_offset = name_offset]
    IN [file EXCEPT !.toc.entries = es, !.toc.header.entries_crc32 = Crc32(es)]

\* the Variant C files with a name at the end of the blob and beyond it, with
\* a last name that no NUL ends, and with a last name that is not UTF-8
NameTampers ==
    UNION {{FESetNameOffset(d, Len(d.toc.names)),
            FESetNameOffset(d, Len(d.toc.names) + 1),
            [d EXCEPT !.toc.names = [@ EXCEPT ![Len(@)] = 65]],
            [d EXCEPT !.toc.names = [@ EXCEPT ![Len(@) - 1] = 255]]} :
           d \in {w \in WellFormed : w.layout = "FinalExam"}}

\* a Variant B or C file with the directory entry at a place of the array
\* given another range (the CRC of a Variant C TOC is the one of the entries
\* it holds)
SetRange(file, at, index, count) ==
    LET es == [file.toc.entries EXCEPT ![at] = [@ EXCEPT !.index = index, !.count = count]]
    IN [file EXCEPT !.toc.entries = es,
                    !.toc.header.entries_crc32 =
                        IF file.layout = "FinalExam" THEN Crc32(es) ELSE @]

\* the Variant B and C files with a root range one entry longer than the
\* array, and with a directory whose range ends beyond the array, begins at
\* the directory itself, or begins at the root
RangeTampers ==
    UNION {{SetRange(d, 1, 1, Len(d.toc.entries))}
           \cup UNION {{SetRange(d, at, Len(d.toc.entries), 1),
                        SetRange(d, at, at - 1, 1),
                        SetRange(d, at, 0, 1)} :
                       at \in {i \in 2..Len(d.toc.entries) :
                                  d.toc.entries[i].kind = "Directory"}} :
           d \in {w \in WellFormed : w.layout \in {"Obscure2", "FinalExam"}}}

OpenDisks ==
    WellFormed
    \cup RangeTampers
    \cup UNION {{Tamper(d, t[1], t[2], t[3]) : t \in Tampers(d)} : d \in WellFormed}
    \cup ZeroedHeaders
    \cup NameTampers
    \cup NoArchives

NoMetadata == [dir_count |-> 0, file_count |-> 0, game |-> "none"]

InitOpen ==
    /\ disk \in OpenDisks
    /\ build \in BOOLEAN
    /\ options = DefaultOptions
    /\ provider = [st |-> "closed"]
    /\ entries = <<>>
    /\ metadata = NoMetadata
    /\ loaded0 = <<>>
    /\ reshaped = FALSE
    /\ iter = None
    /\ yielded = <<>>
    /\ last = [call |-> "none"]
    /\ outs = <<>>
    /\ pc = "closed"

\* try_detect_game on a reader of the file, standing at a position
Detect ==
    /\ pc = "closed"
    /\ \E pos \in {0, 4} :
          /\ pos <= Len(disk.mmap)
          /\ last' = [call |-> "detect", pos |-> pos,
                      result |-> try_detect_game([bytes |-> disk.head, pos |-> pos])]
    /\ pc' = "detected"
    /\ UNCHANGED <<disk, build, options, provider, entries, metadata, loaded0, reshaped, iter,
                   yielded, outs>>

\* ArchiveProvider::new, with a hint or without
Open ==
    /\ pc = "closed"
    /\ \E hint \in {None} \cup {Some(g) : g \in Games} :
          /\ provider' = ProviderNew(disk, hint, build)
          /\ last' = [call |-> "open", hint |-> hint]
    /\ pc' = "opened"
    /\ UNCHANGED <<disk, build, options, entries, metadata, loaded0, reshaped, iter, yielded, outs>>

\* Archive::new on the provider
NewArchive ==
    /\ pc = "opened"
    /\ provider.st = "ok"
    /\ LET mapped == MapEntries(provider.game, provider.mmap, provider.raw_archive)
       IN IF mapped.st = "ok"
          THEN /\ entries' = mapped.entries
               /\ metadata' = Metadata(mapped, provider.game)
               /\ loaded0' = mapped.entries
               /\ pc' = "loaded"
          ELSE /\ pc' = "panicked"
               /\ UNCHANGED <<entries, metadata, loaded0>>
    /\ UNCHANGED <<disk, build, options, provider, reshaped, iter, yielded, last, outs>>

NextOpen ==
    \/ Detect
    \/ Open
    \/ NewArchive

SpecOpen == InitOpen /\ [][NextOpen]_vars

\* the game a call of ArchiveProvider::new went by
GameUsed ==
    IF IsSome(last.hint) THEN last.hint
    ELSE DetectMatch(Take(disk.head, 8))

\* C9: ArchiveProvider::new succeeds only if every file entry with
\* uncompressed_size > 0 has offset + compressed_size <= file length in the
\* integers; an archive with an entry beyond the file is rejected with
\* EntryOffsetOrSizeDoesntFit, and an entry with uncompressed_size = 0 never
\* causes a rejection
C9_ProviderValidation ==
    (pc = "opened" /\ IsSome(GameUsed) /\ ReadToc(GameUsed[1], disk).st = "ok") =>
        LET fits == ExactCheckEntries(ReadToc(GameUsed[1], disk).archive.entries,
                                      Len(disk.mmap))
        IN /\ provider.st = "ok" => fits
           /\ ~fits => provider.st = "EntryOffsetOrSizeDoesntFit"
           /\ fits => provider.st # "EntryOffsetOrSizeDoesntFit"

\* the classification of the first 8 bytes of a file
Classification(buf) ==
    IF buf = MagicObscure1 THEN Some("Obscure1")
    ELSE IF buf \in {MagicObscure2LE, MagicObscure2BE} THEN Some("Obscure2")
    ELSE IF buf \in {MagicFinalExamLE, MagicFinalExamBE} THEN Some("FinalExam")
    ELSE None

\* C10: the first 8 bytes are classified Variant A, B or C by their magic and
\* None otherwise, and a provider opened without a hint on a file classified
\* None fails with UnknownArchive
C10_Autodetect ==
    Len(disk.head) = 8 =>
        /\ pc = "detected" => last.result.game = Classification(disk.head)
        /\ (pc = "opened" /\ ~IsSome(last.hint) /\ ~IsSome(Classification(disk.head)))
              => provider.st = "UnknownArchive"

-----------------------------------------------------------------------------
(* The specification of rebuilding: an archive is loaded with its Options, *)
(* a caller attaches a replacement to a file, and the archive is rebuilt   *)
(* into sinks, some of which fail.                                         *)

RebuildNodes == 2

\* the archives of the specification: every layout, and every way to store
\* the payloads in the layout a rebuild writes
RebuildDisks ==
    UNION {Disks(g, RebuildNodes, {"mixed"}, Layouts)
           \cup Disks(g, RebuildNodes, {"plain", "packed", "hollow"}, {"canonical"}) :
           g \in Games}

InitRebuild ==
    /\ build \in BOOLEAN
    /\ options \in [rebuild_skip_compression : BOOLEAN]
    /\ \E file \in RebuildDisks : Loaded(file)

\* the positions of the files of a tree
RECURSIVE FilePositions(_, _)
FilePositions(es, at) ==
    UNION {IF es[i].kind = "Dir" THEN FilePositions(es[i].entries, Append(at, i))
           ELSE {Append(at, i)} : i \in DOMAIN es}

\* the replacements a caller attaches
Replacements ==
    {UpdateBytes(<<201>>), UpdateBytes(<<>>), UpdateFile("new.bin"), UpdateFile("missing.bin")}

\* files_mut() and FullFileEntryMut::update on one file, before any rebuild
Attach ==
    /\ outs = <<>>
    /\ \A pos \in FilePositions(entries, <<>>) : ~IsSome(EntryAt(entries, pos).update)
    /\ \E pos \in FilePositions(entries, <<>>), update \in Replacements :
          entries' = SetUpdate(entries, pos, Some(update))
    /\ UNCHANGED <<disk, build, options, provider, metadata, loaded0, reshaped, iter,
                   yielded, last, outs, pc>>

\* the sinks a rebuild is given: an empty one, one that is full one byte
\* behind the room of the TOC, one that cannot seek, one that already holds
\* two bytes, and one that holds so many that the first payload lies at the
\* last position a u32 can give
Sinks(p) ==
    {NewSink(<<>>, U32Max, TRUE), NewSink(<<>>, p.entries_offset + 1, TRUE),
     NewSink(<<>>, U32Max, FALSE), NewSink(<<9, 9>>, U32Max, TRUE),
     NewSink(Zeros(U32Max - p.entries_offset), 2 * U32Max, TRUE)}

\* what a rebuild leaves: its result, and the provider with the TOC it holds
Rebuilt(sink, r) ==
    /\ outs' = Append(outs, [sink |-> sink, us |-> entries, st |-> r.st, out |-> r.sink])
    /\ provider' = [provider EXCEPT !.raw_archive = Cloned(@, r.archive)]

\* Archive::rebuild into a sink; the archive is rebuilt at most twice, the
\* second time into a sink like the first
DoRebuild ==
    /\ Len(outs) < 2
    /\ \E sink \in IF outs = <<>> THEN Sinks(provider) ELSE {outs[1].sink} :
          Rebuilt(sink, Rebuild(provider, entries, sink,
                                [skip_compression |-> options.rebuild_skip_compression,
                                 overflow_checks |-> build, names |-> <<>>]))
    /\ UNCHANGED <<disk, build, options, entries, metadata, loaded0, reshaped, iter,
                   yielded, last, pc>>

NextRebuild ==
    \/ Attach
    \/ DoRebuild

SpecRebuild == InitRebuild /\ [][NextRebuild]_vars

\* whether a file of a tree has an update attached
HasUpdate(es) == \E pos \in FilePositions(es, <<>>) : IsSome(EntryAt(es, pos).update)

\* the raw file entries of a TOC in the order a rebuild visits them
RECURSIVE O1RawFiles(_)
O1RawFiles(es) ==
    IF es = <<>> THEN <<>>
    ELSE (IF Head(es).kind = "File" THEN <<Head(es)>> ELSE O1RawFiles(Head(es).entries))
         \o O1RawFiles(Tail(es))

RECURSIVE O2RawFiles(_, _, _, _)
O2RawFiles(flat, start, end, depth) ==
    IF start >= end \/ start + 1 > Len(flat) \/ depth > Len(flat) THEN <<>>
    ELSE (IF flat[start + 1].kind # "Directory" THEN <<flat[start + 1]>>
          ELSE O2RawFiles(flat, entries_range(flat[start + 1]).start,
                          entries_range(flat[start + 1]).end, depth + 1))
         \o O2RawFiles(flat, start + 1, end, depth)

RawFiles(g, toc) ==
    IF g = "Obscure1" THEN O1RawFiles(toc.entries)
    ELSE O2RawFiles(toc.entries, 1, 1 + toc.entries[1].count, 1)

\* the payloads of the files that have content lie one behind the other
\* from position at to the end of the file, in Variant C each followed by
\* the zeros that bring the position to a multiple of 4
RECURSIVE LaidOut(_, _, _, _)
LaidOut(g, files, bytes, at) ==
    IF files = <<>> THEN at = Len(bytes)
    ELSE IF Head(files).uncompressed_size = 0 THEN LaidOut(g, Tail(files), bytes, at)
    ELSE LET end == at + Head(files).compressed_size
         IN /\ Head(files).offset = at
            /\ end + PadLen(g, end) <= Len(bytes)
            /\ \A i \in (end + 1)..(end + PadLen(g, end)) : bytes[i] = 0
            /\ LaidOut(g, Tail(files), bytes, end + PadLen(g, end))

\* a file laid out the way a rebuild lays a file out: the TOC is what the
\* serializer writes for it (flags as 0 and 1, the CRC of the entries it
\* holds), and the payloads follow the TOC in the order of the visit
CanonicalLayout(file) ==
    LET g == file.layout
        start == TocSize(g, file.toc)
    IN /\ ReadToc(g, file).st = "ok"
       /\ WriteToc(g, ReadToc(g, file).archive) = file.toc
       /\ g = "Obscure2" => file.toc.header.entries_crc32 = Crc32(file.toc.entries)
       /\ start + PadLen(g, start) <= Len(file.mmap)
       /\ \A i \in (start + 1)..(start + PadLen(g, start)) : file.mmap[i] = 0
       /\ LaidOut(g, RawFiles(g, file.toc), file.mmap, start + PadLen(g, start))

\* a rebuild with no update into an empty sink that can seek and has room
\* for the file
PlainRebuild(o) ==
    /\ ~HasUpdate(o.us)
    /\ o.sink.pos = 0
    /\ o.sink.seekable
    /\ o.sink.limit >= Len(disk.mmap)

\* the rebuild succeeded and the sink holds the file on disk, TOC and bytes
SameFile(o) ==
    /\ o.st = "ok"
    /\ o.out.toc = Some(disk.toc)
    /\ o.out.bytes = disk.mmap

\* C1 as stated: for every well-formed archive of any variant, a rebuild
\* with no update attached writes a byte stream identical to the original
\* file, TOC, payloads, offsets and padding
C1_RoundTripAnyLayout ==
    \A i \in DOMAIN outs : PlainRebuild(outs[i]) => SameFile(outs[i])

\* C1: for every archive of any variant that is laid out as a rebuild lays
\* a file out, a rebuild with no update attached, into an empty sink, writes
\* a byte stream identical to the original file
C1_RoundTripCanonical ==
    \A i \in DOMAIN outs :
        (PlainRebuild(outs[i]) /\ CanonicalLayout(disk)) => SameFile(outs[i])

C1_Witness ==
    \E i \in DOMAIN outs :
        /\ PlainRebuild(outs[i])
        /\ CanonicalLayout(disk)
        /\ disk.layout = "FinalExam"
        /\ Len(RawFiles(disk.layout, disk.toc)) = 2
        /\ \E k \in 1..2 : RawFiles(disk.layout, disk.toc)[k].kind = "FileCompressed"
        /\ outs[i].st = "ok"

\* the archive the output of a rebuild parses back to
ReadBack(o) == Load(OutDisk(provider.game, o.out), Some(provider.game), build)

\* the file at pos of the output holds the bytes of the update and the sum
\* of its payload
Replaced(back, us, pos) ==
    /\ FileGetBytes(EntryAt(back.entries, pos)).st = "ok"
    /\ FileGetBytes(EntryAt(back.entries, pos)).bytes
          = to_bytes(EntryAt(us, pos).update[1]).bytes
    /\ EntryAt(back.entries, pos).checksum = bytes_sum(EntryAt(back.entries, pos).raw_bytes)

\* C2: for any file given an update and for either value of
\* skip_compression, the output of a successful rebuild parses back as an
\* archive of the same variant in which the content of the updated file
\* (decompressed when its entry is marked compressed) is the replacement and
\* its stored checksum is the wrapping sum of its payload
C2_ReplacementFidelity ==
    \A i \in DOMAIN outs :
        (outs[i].st = "ok" /\ outs[i].sink.pos = 0) =>
            /\ ReadBack(outs[i]).st = "ok"
            /\ ReadBack(outs[i]).metadata.game = provider.game
            /\ \A pos \in FilePositions(outs[i].us, <<>>) :
                  IsSome(EntryAt(outs[i].us, pos).update)
                      => Replaced(ReadBack(outs[i]), outs[i].us, pos)

\* C7: a rebuild, whether it succeeds or fails, leaves the entry tree with
\* its updates, the metadata and the TOC the provider parsed as they were,
\* and a second rebuild into the same sink gives what the first gave
C7_RebuildIsolation ==
    /\ provider.raw_archive = ReadToc(provider.game, disk).archive
    /\ \A i \in DOMAIN outs : outs[i].us = entries
    /\ metadata = Load(disk, HintFor(disk), build).metadata
    /\ \A i, j \in DOMAIN outs :
          outs[i].sink = outs[j].sink
              => (outs[i].st = outs[j].st /\ outs[i].out = outs[j].out)

C7_Witness ==
    /\ Len(outs) = 2
    /\ outs[1].sink = outs[2].sink
    /\ outs[1].st = "Io"
    /\ outs[1].out.log # <<>>
    /\ HasUpdate(entries)

-----------------------------------------------------------------------------
\* C11: after try_detect_game returns, with a game, with None or with an
\* error such as on an input shorter than 8 bytes, the position of the
\* reader is the one it had before the call
C11_DetectRestoresPosition ==
    pc = "detected" => last.result.reader.pos = last.pos

-----------------------------------------------------------------------------
(* The checksum as a function of its input: the inputs are byte sequences  *)
(* made of up to MaxWords complete words and up to three trailing bytes,   *)
(* and each of the two bytes_sum of the repository is applied to them.     *)

MaxWords == 2

SumWords == {<<1, 2, 3, 4>>, <<1, 0, 0, 0>>, <<255, 255, 255, 127>>,
             <<0, 0, 0, 128>>, <<255, 255, 255, 255>>}
SumBytes == {1, 2, 3, 255}

RECURSIVE WordSeqs(_)
WordSeqs(n) ==
    IF n = 0 THEN {<<>>}
    ELSE WordSeqs(n - 1) \cup
         {w \o ws : w \in SumWords, ws \in {x \in WordSeqs(n - 1) : Len(x) = 4 * (n - 1)}}

Trailing == UNION {[1..n -> SumBytes] : n \in 0..3}

SumInputs == {ws \o t : ws \in WordSeqs(MaxWords), t \in Trailing}

\* i32 addition under the build's overflow checks
Overflows(a, b) ==
    \/ a >= 0 /\ b >= 0 /\ a > MaxI32 - b
    \/ a < 0 /\ b < 0 /\ a < MinI32 - b

CheckedAdd(acc, val, overflow_checks) ==
    IF acc.st # "ok" THEN acc
    ELSE IF Overflows(acc.v, val) /\ overflow_checks THEN [st |-> "panic", v |-> 0]
    ELSE [st |-> "ok", v |-> WrappingAdd(acc.v, val)]

\* Iterator::sum over the words
RECURSIVE CoreChunksSum(_, _, _)
CoreChunksSum(data, acc, overflow_checks) ==
    IF Len(data) < 4 THEN acc
    ELSE CoreChunksSum(SubSeq(data, 5, Len(data)),
                       CheckedAdd(acc, FromLeBytes(data[1], data[2], data[3], data[4]),
                                  overflow_checks),
                       overflow_checks)

\* Iterator::sum over the remainder
RECURSIVE CoreRemainderSum(_, _, _)
CoreRemainderSum(data, acc, overflow_checks) ==
    IF data = <<>> THEN acc
    ELSE CoreRemainderSum(Tail(data), CheckedAdd(acc, Head(data), overflow_checks),
                          overflow_checks)

CoreAddSums(chunks_sum, remainder_sum, overflow_checks) ==
    IF remainder_sum.st # "ok" THEN remainder_sum
    ELSE CheckedAdd(chunks_sum, remainder_sum.v, overflow_checks)

\* bytes_sum of obscure-core
core_bytes_sum(data, overflow_checks) ==
    CoreAddSums(CoreChunksSum(data, [st |-> "ok", v |-> 0], overflow_checks),
                CoreRemainderSum(Remainder(data), [st |-> "ok", v |-> 0], overflow_checks),
                overflow_checks)

InitSum ==
    /\ disk \in SumInputs
    /\ build \in BOOLEAN
    /\ options = DefaultOptions
    /\ provider = <<>>
    /\ entries = <<>>
    /\ metadata = <<>>
    /\ loaded0 = <<>>
    /\ reshaped = FALSE
    /\ iter = <<>>
    /\ yielded = <<>>
    /\ last = <<>>
    /\ outs = <<>>
    /\ pc = "input"

Sum ==
    /\ pc = "input"
    /\ last' = [st |-> "ok", v |-> bytes_sum(disk)]
    /\ pc' = "summed"
    /\ UNCHANGED <<disk, build, options, provider, entries, metadata, loaded0,
                   reshaped, iter, yielded, outs>>

CoreSum ==
    /\ pc = "input"
    /\ last' = core_bytes_sum(disk, build)
    /\ pc' = "summed"
    /\ UNCHANGED <<disk, build, options, provider, entries, metadata, loaded0,
                   reshaped, iter, yielded, outs>>

NextSum == Sum \/ CoreSum

SpecSum == InitSum /\ [][NextSum]_vars

\* the low and the high 16 bits of the words, and the trailing bytes, added
\* as natural numbers
RECURSIVE LowHalves(_)
LowHalves(data) ==
    IF Len(data) < 4 THEN SumSeq(data)
    ELSE data[1] + 256 * data[2] + LowHalves(SubSeq(data, 5, Len(data)))

RECURSIVE HighHalves(_)
HighHalves(data) ==
    IF Len(data) < 4 THEN 0
    ELSE data[3] + 256 * data[4] + HighHalves(SubSeq(data, 5, Len(data)))

\* the sum modulo 2^32 read as a signed 32-bit value
TopHalf(low, high) == (high + low \div 65536) % 65536

SignedSum(low, high) ==
    IF TopHalf(low, high) >= 32768
    THEN (TopHalf(low, high) - 65536) * 65536 + (low % 65536)
    ELSE TopHalf(low, high) * 65536 + (low % 65536)

\* C12: bytes_sum of any byte sequence is the sum of its complete
\* little-endian words and of its trailing bytes modulo 2^32 read as a signed
\* 32-bit value, it never fails, and it is 0 for the empty input, 0x04030201
\* for [1,2,3,4] and 6 for [1,2,3]
C12_WrappingSum ==
    pc = "summed" =>
        /\ last = [st |-> "ok", v |-> SignedSum(LowHalves(disk), HighHalves(disk))]
        /\ disk = <<>> => last.v = 0
        /\ disk = <<1, 2, 3, 4>> => last.v = 67305985
        /\ disk = <<1, 2, 3>> => last.v = 6

-----------------------------------------------------------------------------
\* C13: a Variant A header whose root_count, all_count, file_count or
\* data_offset is 0 is rejected when the archive is loaded, a header with
\* data_offset = 0 and positive counts included
C13_HeaderValidation ==
    (/\ pc = "opened"
     /\ disk.layout = "Obscure1"
     /\ GameUsed = Some("Obscure1")
     /\ \E f \in HeaderFields : disk.toc.header[f] = 0)
        => provider.st = "ArchiveLoadFailed"

-----------------------------------------------------------------------------
\* a NUL-terminated valid UTF-8 string lies at an offset inside the blob
NulTerminatedAt(names, offset) ==
    /\ offset < Len(names)
    /\ \E i \in (offset + 1)..Len(names) : names[i] = 0
    /\ Utf8Valid(UntilNul(SubSeq(names, offset + 1, Len(names))))

\* C14: a Variant C archive loads only if the name_offset of every entry lies
\* inside the names blob where a NUL-terminated valid UTF-8 string follows (an
\* offset equal to the length of the blob and a last string without its NUL
\* are rejected), and get_name_by_offset then fails for no entry
C14_NameValidation ==
    (/\ pc = "opened"
     /\ disk.layout = "FinalExam"
     /\ GameUsed = Some("FinalExam")
     /\ provider.st = "ok")
        => \A i \in DOMAIN disk.toc.entries :
              /\ NulTerminatedAt(disk.toc.names, disk.toc.entries[i].name_offset)
              /\ get_name_by_offset(disk.toc.names, disk.toc.entries[i].name_offset).st = "ok"

-----------------------------------------------------------------------------
(* The specification of the create command of the CLI: an archive and a    *)
(* folder of exported files lie on the disk, the command is given its      *)
(* arguments and runs to its end.  The CRC32 of a path and of a content    *)
(* is an ideal hash.                                                       *)

\* HASHES_FILE: "hashes.json"
HashesFile == <<104, 97, 115, 104, 101, 115, 46, 106, 115, 111, 110>>

\* every item of an iterator, in the order next() returns them
RECURSIVE IterItems(_)
IterCons(r) == IF IsSome(r.item) THEN <<r.item[1]>> \o IterItems(r.it) ELSE <<>>
IterItems(it) == IterCons(IterNext(it))

\* the paths archive.files_mut() yields
EntryPaths(es, file_count) ==
    {IterItems(IterNew(es, file_count, TRUE))[i].path :
        i \in DOMAIN IterItems(IterNew(es, file_count, TRUE))}

\* a file of the folder that is in no archive
OtherPath == <<120>>

\* the content hashes.json recorded for every file, and a changed one
Exported == <<7>>
Edited == <<8>>

\* the folders of the specification: some of the files of the archive and
\* another file, each as it was exported or edited, with or without the
\* hashes.json the extraction wrote
Folders(paths) ==
    {[files |-> f, hashes |-> h] :
        f \in UNION {[S -> {Exported, Edited}] : S \in SUBSET (paths \cup {OtherPath})},
        h \in {None, Some([c \in {Crc32(q) : q \in paths \cup {OtherPath}}
                             |-> Crc32(Exported)])}}

\* utils::list_files(&self.input_folder, true)
list_files(folder) ==
    DOMAIN folder.files \cup (IF IsSome(folder.hashes) THEN {HashesFile} ELSE {})

\* the filter on the modified files
FilteredFiles(folder) ==
    {path \in list_files(folder) :
        /\ path # HashesFile
        /\ ~(/\ Crc32(path) \in DOMAIN folder.hashes[1]
             /\ folder.hashes[1][Crc32(path)] = Crc32(folder.files[path]))}

\* the files the entries are updated from
CreateFiles(cmd, folder) ==
    IF IsSome(folder.hashes) /\ ~cmd.update_all_files
    THEN FilteredFiles(folder) ELSE list_files(folder)

\* the check of the checksums: whether the command bails out
ChecksumBail(cmd, es, stdin) ==
    /\ cmd.checksum_validation \in {"Yes", "Prompt"}
    /\ ~entries_checksum_match(es)
    /\ ~(cmd.checksum_validation = "Prompt" /\ stdin = "y")

\* the loop over archive.files_mut(): UpdateKind::File(entry.path), whose
\* bytes are the ones the folder holds when the rebuild reads the file
RECURSIVE UpdateLoop(_, _, _, _)
UpdateLoop(es, items, files, folder) ==
    IF items = <<>> THEN [entries |-> es, updated |-> FALSE]
    ELSE IF Head(items).path \notin files
    THEN UpdateLoop(es, Tail(items), files, folder)
    ELSE [UpdateLoop(SetUpdate(es, Head(items).pos,
                               Some(UpdateBytes(folder.files[Head(items).path]))),
                     Tail(items), files, folder)
          EXCEPT !.updated = TRUE]

\* the end of start: File::create(output) and archive.rebuild
CreateRebuild(p, loop, cfg) ==
    [st |-> "rebuild", created |-> TRUE, entries |-> loop.entries,
     rebuild |-> Some(Rebuild(p, loop.entries, NewSink(<<>>, U32Max, TRUE), cfg))]

CreateBail(message, es) ==
    [st |-> message, created |-> FALSE, entries |-> es, rebuild |-> None]

\* start behind the filter: the loop and the checks on its outcome
CreateUpdate(cmd, p, es, loop, cfg) ==
    IF ~loop.updated /\ ~cmd.generate_anyway
    THEN CreateBail("nothing in the archive updated. aborting", loop.entries)
    ELSE CreateRebuild(p, loop, cfg)

\* Commands::start
start(cmd, p, es, file_count, fs, cfg) ==
    IF ChecksumBail(cmd, es, fs.stdin)
    THEN CreateBail("archive entries checksum doesn't match", es)
    ELSE IF list_files(fs.input_folder) = {} /\ cmd.generate_anyway
    THEN CreateBail("no file found in input folder", es)
    ELSE IF CreateFiles(cmd, fs.input_folder) = {} /\ ~cmd.generate_anyway
    THEN CreateBail("no modified file found", es)
    ELSE CreateUpdate(cmd, p, es,
                      UpdateLoop(es, IterItems(IterNew(es, file_count, TRUE)),
                                 CreateFiles(cmd, fs.input_folder), fs.input_folder),
                      cfg)

CreateDisks == UNION {Disks(g, 2, {"plain", "badsum"}, {"canonical"}) : g \in Games}

CreateArgs ==
    [rebuild_skip_compression : {FALSE}, generate_anyway : BOOLEAN,
     update_all_files : BOOLEAN, checksum_validation : {"Yes", "No", "Prompt"}]

\* the state once the provider and the archive of the command are made
CreateLoaded(file, a) ==
    /\ a.st = "ok"
    /\ \E folder \in Folders(EntryPaths(a.entries, a.metadata.file_count)),
          stdin \in {"y", "n"} :
            disk = [input_hvp |-> file, input_folder |-> folder, stdin |-> stdin]
    /\ provider = a.provider
    /\ entries = a.entries
    /\ metadata = a.metadata
    /\ loaded0 = a.entries

InitCreate ==
    /\ build = TRUE
    /\ options \in CreateArgs
    /\ \E file \in CreateDisks : CreateLoaded(file, Load(file, HintFor(file), build))
    /\ reshaped = FALSE
    /\ iter = None
    /\ yielded = <<>>
    /\ last = <<>>
    /\ outs = <<>>
    /\ pc = "loaded"

Create ==
    /\ pc = "loaded"
    /\ last' = start(options, provider, entries, metadata.file_count, disk,
                     [skip_compression |-> options.rebuild_skip_compression,
                      overflow_checks |-> build, names |-> <<>>])
    /\ pc' = "done"
    /\ UNCHANGED <<disk, build, options, provider, entries, metadata, loaded0,
                   reshaped, iter, yielded, outs>>

SpecCreate == InitCreate /\ [][Create]_vars

\* the three ways in which no file changed: the folder is empty, nothing is
\* left by the filter, no entry of the archive is among the files that are
NoFileChanged ==
    \/ list_files(disk.input_folder) = {}
    \/ CreateFiles(options, disk.input_folder) = {}
    \/ CreateFiles(options, disk.input_folder)
          \cap EntryPaths(entries, metadata.file_count) = {}

\* C15: with generate_anyway the create command reaches the rebuild and
\* writes an archive even when no file changed (empty folder, nothing left
\* by the filter on hashes.json, no entry of the archive matched); without
\* it the command aborts in these cases before the output file is created
C15_GenerateAnyway ==
    (/\ pc = "done"
     /\ ~ChecksumBail(options, entries, disk.stdin)
     /\ NoFileChanged)
        => IF options.generate_anyway
           THEN /\ last.created
                /\ IsSome(last.rebuild)
                /\ last.rebuild[1].st = "ok"
                /\ IsSome(last.rebuild[1].sink.toc)
           ELSE ~last.created /\ ~IsSome(last.rebuild)

-----------------------------------------------------------------------------
(* The order of a rebuild: the payload writes the sink saw, and the file   *)
(* entries the updater patched, in the order of the visit.                 *)

\* the payload writes of a rebuild in the order they were made
PayloadLog(o) == SelectSeq(o.out.log, LAMBDA e : e.what = "payload")

\* the places, in the order of the visit, of the files a rebuild does not skip
PatchedIdx ==
    SelectSeq([i \in DOMAIN RawFiles(provider.game, provider.raw_archive) |-> i],
              LAMBDA i : RawFiles(provider.game, provider.raw_archive)[i].uncompressed_size # 0)

\* the file entries a rebuild patched, as the TOC it wrote holds them
PatchedFiles(o) ==
    [k \in DOMAIN PatchedIdx |-> RawFiles(provider.game, o.out.toc[1])[PatchedIdx[k]]]

\* the k-th payload written is the one of the k-th file of the visit, and
\* it lies where the offset of that file says, modulo 2^32
WrittenInVisitOrder(o) ==
    /\ Len(PayloadLog(o)) = Len(PatchedIdx)
    /\ \A k \in DOMAIN PatchedIdx :
          /\ PayloadLog(o)[k].pos % U32Mod = PatchedFiles(o)[k].offset
          /\ PayloadLog(o)[k].len % U32Mod = PatchedFiles(o)[k].compressed_size

-----------------------------------------------------------------------------
\* the files of a unified tree in the order of the visit
UnifiedFiles(us) ==
    [k \in DOMAIN PreOrder(us, <<>>) |-> EntryAt(us, PreOrder(us, <<>>)[k])]

\* the TOC a rebuild wrote, read again
WrittenToc(o) == ReadToc(provider.game, OutDisk(provider.game, o.out))

\* the k-th file of the TOC a rebuild wrote and of the TOC that was loaded
WrittenFile(o, k) == RawFiles(provider.game, WrittenToc(o).archive)[k]
LoadedFile(k) == RawFiles(provider.game, provider.raw_archive)[k]

\* the write of the payload of the k-th file, which is not skipped
PayloadOf(o, k) ==
    PayloadLog(o)[Cardinality({j \in 1..k : LoadedFile(j).uncompressed_size # 0})]

\* the raw bytes of the k-th file are in the sink as they were
Verbatim(o, k) ==
    \/ UnifiedFiles(o.us)[k].raw_bytes = <<>>
    \/ /\ LoadedFile(k).uncompressed_size # 0
       /\ SubSeq(o.out.bytes, PayloadOf(o, k).pos + 1,
                 PayloadOf(o, k).pos + PayloadOf(o, k).len)
             = UnifiedFiles(o.us)[k].raw_bytes

\* nothing but the offset of the k-th file entry differs
OnlyOffsetChanged(o, k) ==
    [WrittenFile(o, k) EXCEPT !.offset = 0] = [LoadedFile(k) EXCEPT !.offset = 0]

\* C17 as stated: for every file entry with no update attached a rebuild
\* writes its raw bytes verbatim and changes only the offset of the entry:
\* sizes, checksum, compression flag or kind tag and name are in the written
\* TOC what they are in the loaded TOC
C17_UntouchedFilesVerbatim ==
    \A i \in DOMAIN outs :
        outs[i].st = "ok" =>
            /\ WrittenToc(outs[i]).st = "ok"
            /\ Len(PayloadLog(outs[i])) = Len(PatchedIdx)
            /\ \A k \in DOMAIN UnifiedFiles(outs[i].us) :
                  ~IsSome(UnifiedFiles(outs[i].us)[k].update)
                      => Verbatim(outs[i], k) /\ OnlyOffsetChanged(outs[i], k)

\* C17: for every file entry with no update attached a rebuild changes only
\* the offset of the entry, and it writes the raw bytes of the entry
\* verbatim unless the uncompressed_size of the entry is 0
C17_UntouchedFilesKept ==
    \A i \in DOMAIN outs :
        outs[i].st = "ok" =>
            /\ WrittenToc(outs[i]).st = "ok"
            /\ Len(PayloadLog(outs[i])) = Len(PatchedIdx)
            /\ \A k \in DOMAIN UnifiedFiles(outs[i].us) :
                  ~IsSome(UnifiedFiles(outs[i].us)[k].update)
                      => /\ OnlyOffsetChanged(outs[i], k)
                         /\ LoadedFile(k).uncompressed_size # 0
                               => /\ Verbatim(outs[i], k)
                                  /\ PayloadOf(outs[i], k).len
                                        = Len(UnifiedFiles(outs[i].us)[k].raw_bytes)

C17_Witness ==
    \E i \in DOMAIN outs :
        /\ outs[i].st = "ok"
        /\ HasUpdate(outs[i].us)
        /\ \E k \in DOMAIN UnifiedFiles(outs[i].us) :
              /\ ~IsSome(UnifiedFiles(outs[i].us)[k].update)
              /\ IF provider.game = "Obscure1" THEN LoadedFile(k).is_compressed
                 ELSE LoadedFile(k).kind = "FileCompressed"
              /\ LoadedFile(k).uncompressed_size # 0
              /\ WrittenFile(outs[i], k).offset # LoadedFile(k).offset

-----------------------------------------------------------------------------
\* whether a raw file entry is marked compressed
MarkedCompressed(g, e) ==
    IF g = "Obscure1" THEN e.is_compressed = TRUE ELSE e.kind = "FileCompressed"

\* the replacement of the k-th file
ReplacementOf(o, k) == to_bytes(UnifiedFiles(o.us)[k].update[1]).bytes

\* C18: for every updated file entry that is not skipped, in every variant,
\* when skip_compression is set or the original entry was not compressed, a
\* rebuild writes the plaintext, sets compressed_size and uncompressed_size
\* to its length and checksum to its wrapping sum, and the entry of the
\* written TOC is marked uncompressed
C18_PlaintextReplacement ==
    \A i \in DOMAIN outs :
        outs[i].st = "ok" =>
            /\ WrittenToc(outs[i]).st = "ok"
            /\ Len(PayloadLog(outs[i])) = Len(PatchedIdx)
            /\ \A k \in DOMAIN UnifiedFiles(outs[i].us) :
                  (/\ IsSome(UnifiedFiles(outs[i].us)[k].update)
                   /\ LoadedFile(k).uncompressed_size # 0
                   /\ \/ options.rebuild_skip_compression
                      \/ ~MarkedCompressed(provider.game, LoadedFile(k)))
                      => /\ SubSeq(outs[i].out.bytes, PayloadOf(outs[i], k).pos + 1,
                                   PayloadOf(outs[i], k).pos + PayloadOf(outs[i], k).len)
                               = ReplacementOf(outs[i], k)
                         /\ WrittenFile(outs[i], k).compressed_size
                               = Len(ReplacementOf(outs[i], k))
                         /\ WrittenFile(outs[i], k).uncompressed_size
                               = Len(ReplacementOf(outs[i], k))
                         /\ WrittenFile(outs[i], k).checksum
                               = bytes_sum(ReplacementOf(outs[i], k))
                         /\ ~MarkedCompressed(provider.game, WrittenFile(outs[i], k))

-----------------------------------------------------------------------------
\* the payloads lie one behind the other, with the padding of Variant C
\* between them: nothing else moved the sink or the cursor
Contiguous(o) ==
    \A j \in 1..(Len(PayloadLog(o)) - 1) :
        PayloadLog(o)[j + 1].pos
            = PayloadLog(o)[j].pos + PayloadLog(o)[j].len
              + PadLen(provider.game, PayloadLog(o)[j].pos + PayloadLog(o)[j].len)

\* C19: for every file entry whose uncompressed_size is 0 a rebuild writes
\* no payload and does not move the cursor, leaves every field of the entry,
\* its offset included, as it was, ignores an update attached to it, and
\* gives the progress message "(skp)" with the name of the file
C19_EmptyFilesSkipped ==
    \A i \in DOMAIN outs :
        outs[i].st = "ok" =>
            /\ WrittenToc(outs[i]).st = "ok"
            /\ Len(outs[i].out.progress) = Len(UnifiedFiles(outs[i].us))
            /\ WrittenInVisitOrder(outs[i])
            /\ Contiguous(outs[i])
            /\ \A k \in DOMAIN UnifiedFiles(outs[i].us) :
                  LoadedFile(k).uncompressed_size = 0
                      => /\ WrittenFile(outs[i], k) = LoadedFile(k)
                         /\ outs[i].out.progress[k]
                               = [tag |-> "(skp)", name |-> UnifiedFiles(outs[i].us)[k].name]

C19_Witness ==
    \E i \in DOMAIN outs :
        /\ outs[i].st = "ok"
        /\ Len(UnifiedFiles(outs[i].us)) = 2
        /\ LoadedFile(1).uncompressed_size = 0
        /\ LoadedFile(1).compressed_size > 0
        /\ IsSome(UnifiedFiles(outs[i].us)[1].update)
        /\ to_bytes(UnifiedFiles(outs[i].us)[1].update[1]).st = "ok"
        /\ Len(PayloadLog(outs[i])) = 1
        /\ outs[i].out.progress[1].tag = "(skp)"
        /\ outs[i].out.progress[2].tag = "(src)"

-----------------------------------------------------------------------------
(* C20: the padding of Variant C.                                          *)

\* the writes of update_entries, in the order they were made
DataLog(o) == SelectSeq(o.out.log, LAMBDA e : e.what \in {"payload", "padding"})

\* the j-th write of update_entries is a padding: one to three zero bytes
\* that end on a multiple of 4, behind a payload or at the very start
IsPadding(o, j) ==
    /\ DataLog(o)[j].len \in 1..3
    /\ (DataLog(o)[j].pos + DataLog(o)[j].len) % 4 = 0
    /\ SubSeq(o.out.bytes, DataLog(o)[j].pos + 1, DataLog(o)[j].pos + DataLog(o)[j].len)
          = Zeros(DataLog(o)[j].len)
    /\ j > 1 => DataLog(o)[j - 1].what = "payload"

\* the writes of update_entries follow each other from the end of the room
\* of the TOC, with nothing between them
Adjacent(o) ==
    /\ DataLog(o) # <<>> => DataLog(o)[1].pos = o.out.toc_pos + provider.entries_offset
    /\ \A j \in 1..(Len(DataLog(o)) - 1) :
          DataLog(o)[j + 1].pos = DataLog(o)[j].pos + DataLog(o)[j].len

-----------------------------------------------------------------------------
(* C21: entries_crc32 of Variants B and C after a rebuild.                 *)

\* the TOC a rebuild serialized into its sink
SinkToc(o) == o.out.toc[1]

-----------------------------------------------------------------------------
(* C22: the two CRCs of Variant A after a rebuild.                         *)

\* C22: after a rebuild of a Variant A archive with minor_version 1 that
\* succeeds, with whatever updates, the header CRC that was written is the
\* CRC32 of the header that was written and the entries CRC is the CRC32
\* of the patched entry tree that was written
C22_BothCrcsRecomputed ==
    \A i \in DOMAIN outs :
        (/\ provider.game = "Obscure1"
         /\ provider.raw_archive.header.minor_version = 1
         /\ outs[i].st = "ok") =>
            /\ IsSome(SinkToc(outs[i]).checksums)
            /\ SinkToc(outs[i]).checksums[1].header = Crc32(SinkToc(outs[i]).header)
            /\ SinkToc(outs[i]).checksums[1].entries = Crc32(SinkToc(outs[i]).entries)

-----------------------------------------------------------------------------
(* C23: the TOC is written last.                                           *)

\* the places of the log of a rebuild where TOC bytes were written
TocWrites(o) == {j \in DOMAIN o.out.log : o.out.log[j].what = "toc"}

-----------------------------------------------------------------------------
(* The specification of a rebuild of a tree whose shape a caller changed   *)
(* through entries_mut(): a directory cleared or grown, an entry replaced  *)
(* by one of the other kind.                                               *)

DesyncDisks == UNION {Disks(g, MaxNodes, {"plain"}, {"canonical"}) : g \in Games}

InitDesync ==
    /\ build = TRUE
    /\ options = DefaultOptions
    /\ \E file \in DesyncDisks : Loaded(file)

NextDesync ==
    \/ ClearDir
    \/ PushClone
    \/ ReplaceEntry
    \/ DoRebuild

SpecDesync == InitDesync /\ [][NextDesync]_vars

\* C24: a rebuild of a unified tree that disagrees with the TOC somewhere
\* (a file against a directory, or another number of children at a level)
\* stops fatally, it never returns Ok
C24_DesyncIsFatal ==
    \A i \in DOMAIN outs :
        Shape(outs[i].us) # Shape(loaded0) => outs[i].st # "ok"

-----------------------------------------------------------------------------
(* C25: the cursor of the updater and the position of the sink.            *)

\* C25: in a rebuild that succeeds the offset patched into every file
\* entry that is not skipped is the position of the sink at which the
\* first byte of its payload was written, wherever the sink stood when
\* the rebuild began and however many bytes were written
C25_CursorTracksSink ==
    \A i \in DOMAIN outs :
        outs[i].st = "ok" =>
            /\ Len(PayloadLog(outs[i])) = Len(PatchedIdx)
            /\ \A k \in DOMAIN PatchedIdx :
                  PatchedFiles(outs[i])[k].offset = PayloadLog(outs[i])[k].pos

-----------------------------------------------------------------------------
(* C26: the size of the TOC a rebuild writes.                              *)

\* the write of the TOC of a rebuild that succeeded
TocWrite(o) == o.out.log[Len(o.out.log)]

\* C26: whatever the updates, the TOC a rebuild writes at the position the
\* sink had on entry takes exactly the entries_offset bytes kept for it:
\* it ends where the first write of update_entries begins
C26_TocSizeInvariant ==
    \A i \in DOMAIN outs :
        outs[i].st = "ok" =>
            /\ TocWrite(outs[i]).what = "toc"
            /\ TocWrite(outs[i]).pos = outs[i].sink.pos
            /\ TocWrite(outs[i]).len = TocSize(provider.game, SinkToc(outs[i]))
            /\ TocWrite(outs[i]).len = provider.entries_offset
            /\ DataLog(outs[i]) # <<>> =>
                  DataLog(outs[i])[1].pos = TocWrite(outs[i]).pos + TocWrite(outs[i]).len

C26_Witness ==
    \E i \in DOMAIN outs :
        /\ outs[i].st = "ok"
        /\ provider.game = "Obscure1"
        /\ IsSome(provider.raw_archive.checksums)
        /\ outs[i].sink.pos = 2
        /\ SinkToc(outs[i]).entries # O1Write(provider.raw_archive).entries
        /\ \E k \in DOMAIN UnifiedFiles(outs[i].us) :
              /\ IsSome(UnifiedFiles(outs[i].us)[k].update)
              /\ WrittenFile(outs[i], k).compressed_size # LoadedFile(k).compressed_size
        /\ PayloadLog(outs[i]) # <<>>

-----------------------------------------------------------------------------
(* C27: the mapping of the flat array of Variants B and C.                 *)

\* the places of the array in the range of the directory at a place
Children(es, i) ==
    IF es[i].kind = "Directory"
    THEN {j \in DOMAIN es : es[i].index < j /\ j <= es[i].index + es[i].count}
    ELSE {}

\* the places reached from a set of places in at most n steps
RECURSIVE Below(_, _, _)
Below(es, from, n) ==
    IF n = 0 THEN from
    ELSE Below(es, from \cup UNION {Children(es, j) : j \in from}, n - 1)

Descendants(es, i) == Below(es, Children(es, i), Len(es))

\* every range lies inside the array
RangesInside(es) ==
    \A i \in DOMAIN es :
        es[i].kind = "Directory" => es[i].index + es[i].count <= Len(es)

\* no directory the walk reaches holds itself or one of its ancestors
NoCycle(es) ==
    \A i \in {1} \cup Descendants(es, 1) : i \notin Descendants(es, i)

\* C27: for every TOC of Variant B or C that the codec and the provider
\* accept, Archive::new returns a tree: every range of a directory lies
\* inside the flat array, no range holds its directory or an ancestor of
\* it, and the mapping ends without a fatal error
C27_MappingTotal ==
    (/\ pc \in {"opened", "loaded", "panicked"}
     /\ provider.st = "ok"
     /\ provider.game \in {"Obscure2", "FinalExam"}) =>
        /\ RangesInside(provider.raw_archive.entries)
        /\ NoCycle(provider.raw_archive.entries)
        /\ pc # "panicked"

-----------------------------------------------------------------------------
(* The specification of the rebuild of Variant B and C archives whose      *)
(* directory ranges are inside the array and lead forward, but need not    *)
(* tile it: the codec and the provider accept every one of them.           *)

\* the archives with one directory entry, the root included, given any
\* range behind it that lies inside the array
RangeDisks ==
    UNION {{d} \cup {SetRange(d, at, index, count) :
                        at \in {i \in DOMAIN d.toc.entries :
                                   d.toc.entries[i].kind = "Directory"},
                        index \in 1..(Len(d.toc.entries) - 1),
                        count \in 1..(Len(d.toc.entries) - 1)} :
           d \in Disks("Obscure2", MaxNodes, {"plain"}, {"canonical"})
                 \cup Disks("FinalExam", MaxNodes, {"plain"}, {"canonical"})}

InitRanges ==
    /\ build = TRUE
    /\ options = DefaultOptions
    /\ \E file \in RangeDisks :
          /\ have_root_entry(file.toc.entries)
          /\ \A i \in DOMAIN file.toc.entries :
                file.toc.entries[i].kind = "Directory" =>
                    /\ file.toc.entries[i].index >= i
                    /\ file.toc.entries[i].index + file.toc.entries[i].count
                          <= Len(file.toc.entries)
          /\ Loaded(file)

SpecRanges == InitRanges /\ [][NextRebuild]_vars

\* the places of the file entries of the flat array
FilePlaces == {j \in DOMAIN provider.raw_archive.entries :
                  provider.raw_archive.entries[j].kind # "Directory"}

\* the name the updater gives the file entry at a place
PlaceName(j) ==
    O2UpdateName(provider.game, provider.raw_archive.entries[j],
                 [names |-> IF provider.game = "FinalExam"
                            THEN provider.raw_archive.names ELSE <<>>])

\* the visits a rebuild made to the file entry at a place
Visits(o, j) == {k \in DOMAIN o.out.progress : o.out.progress[k].name = PlaceName(j)}

\* C28: a rebuild of a Variant B or C archive visits every file entry of
\* the flat array exactly once: none is visited twice because two ranges
\* hold it, none is left out with the offset it had
C28_EachFileVisitedOnce ==
    \A i \in DOMAIN outs :
        outs[i].st = "ok" =>
            \A j \in FilePlaces : Cardinality(Visits(outs[i], j)) = 1

-----------------------------------------------------------------------------
(* C29: the slices the mapping takes of the map.                           *)

\* the file entries the mapping of the loaded TOC calls get_bytes for:
\* Variant A leaves out the entries with uncompressed_size 0
GetBytesCalls ==
    IF provider.game = "Obscure1"
    THEN SelectSeq(O1RawFiles(provider.raw_archive.entries),
                   LAMBDA e : e.uncompressed_size # 0)
    ELSE RawFiles(provider.game, provider.raw_archive)

\* C29: once the provider has accepted an archive, every get_bytes(offset,
\* size) of the mapping has offset + size <= the length of the map, in
\* every variant, for entries with uncompressed_size 0 and for entries
\* whose offset + compressed_size is beyond 2^32 - 1 as well
C29_GetBytesInBounds ==
    (pc \in {"loaded", "panicked"} /\ provider.st = "ok") =>
        \A k \in DOMAIN GetBytesCalls :
            GetBytesCalls[k].offset + GetBytesCalls[k].compressed_size <= Len(provider.mmap)

-----------------------------------------------------------------------------
(* structures/common.rs: Crc32Reader.  The specification of a Crc32Reader  *)
(* over a stream: reads of any length, which the stream may cut short, and *)
(* seeks back into the region already read.  disk is the stream, iter the  *)
(* Crc32Reader, last the position the reader was made at and the furthest  *)
(* position read.  The hasher is the sequence of the bytes it was given:   *)
(* its CRC32 is the one of that sequence.                                  *)

\* the length of the stream
CrcLen == 4
\* the most bytes a run gives the hasher
MaxHashed == 6

\* Crc32Reader::new
Crc32ReaderNew(reader) ==
    [reader |-> reader, hasher |-> <<>>, pos |-> reader.pos, checksum_pos |-> reader.pos]

\* the bytes a read of the inner reader returned
ReadBuf(r, read) == SubSeq(r.reader.bytes, r.reader.pos + 1, r.reader.pos + read)

\* Read for Crc32Reader, the inner read returned read bytes: the position
\* advances, and unless it now equals checksum_pos the whole buffer is
\* hashed and checksum_pos advances by its length
CrcRead(r, read) ==
    [r EXCEPT !.reader.pos = @ + read,
              !.pos = @ + read,
              !.hasher = IF r.pos + read # r.checksum_pos THEN @ \o ReadBuf(r, read) ELSE @,
              !.checksum_pos = IF r.pos + read # r.checksum_pos THEN @ + read ELSE @]

\* Seek for Crc32Reader
CrcSeek(r, to) == [r EXCEPT !.reader.pos = to, !.pos = to]

\* Crc32Reader::hash
CrcHash(r) == Crc32(r.hasher)

InitCrc ==
    /\ disk = [i \in 1..CrcLen |-> 10 + i]
    /\ build = TRUE
    /\ options = DefaultOptions
    /\ provider = <<>>
    /\ entries = <<>>
    /\ metadata = <<>>
    /\ loaded0 = <<>>
    /\ reshaped = FALSE
    /\ \E at \in 0..1 :
          /\ iter = Crc32ReaderNew([bytes |-> disk, pos |-> at])
          /\ last = [start |-> at, furthest |-> at]
    /\ yielded = <<>>
    /\ outs = <<>>
    /\ pc = "reading"

\* read(buf) with a buffer of len bytes, of which the stream gives some
ReadSome ==
    /\ pc = "reading"
    /\ Len(iter.hasher) < MaxHashed
    /\ \E len \in 1..CrcLen :
          \E read \in IF iter.reader.pos = Len(disk) THEN {0}
                      ELSE 1..(IF len < Len(disk) - iter.reader.pos THEN len
                               ELSE Len(disk) - iter.reader.pos) :
              /\ iter' = CrcRead(iter, read)
              /\ last' = [last EXCEPT !.furthest = Max(@, iter.reader.pos + read)]
    /\ UNCHANGED <<disk, build, options, provider, entries, metadata, loaded0, reshaped,
                   yielded, outs, pc>>

\* seek(SeekFrom::Start(to)) back into the region that was read
SeekBack ==
    /\ pc = "reading"
    /\ \E to \in last.start..iter.reader.pos :
          /\ to < iter.reader.pos
          /\ iter' = CrcSeek(iter, to)
    /\ UNCHANGED <<disk, build, options, provider, entries, metadata, loaded0, reshaped,
                   yielded, last, outs, pc>>

NextCrc == ReadSome \/ SeekBack

SpecCrc == InitCrc /\ [][NextCrc]_vars

\* C30: whatever reads (cut short or not) and seeks back were made, the
\* hash of a Crc32Reader is the CRC32 of the bytes of the stream from the
\* position the reader was made at to the furthest position read: every
\* byte was hashed once, in the order of the stream
C30_HashesRegionOnce ==
    pc = "reading" => CrcHash(iter) = Crc32(SubSeq(disk, last.start + 1, last.furthest))

=============================================================================
